---- MODULE Spec2Model ----
(***************************************************************************)
(* LocalFunction::parse of walrus: the single pass that validates a wasm   *)
(* function body operator by operator (validate_instruction) and builds    *)
(* the nested instruction sequences of the IR at the same time.            *)
(*                                                                         *)
(* The body is read lazily: every step of the read loop draws the next     *)
(* operator from a small alphabet, or finds the reader at eof.  `body` is   *)
(* the list of operators read so far.                                      *)
(***************************************************************************)
EXTENDS Naturals, Integers, Sequences, FiniteSets, TLC

VARIABLES
    body,       \* operators read from the OperatorsReader so far
    result,     \* result types of the function's type (mod.rs:54)
    indices,    \* IndicesToIds and the module's tables: memories, data
                \* segments, the function's locals and their types
    args,       \* LocalFunction::args: the ids of the argument locals
    operands,   \* context::OperandStack: Vec<Option<ValType>>
    controls,   \* context::ControlStack: Vec<ControlFrame>
    if_else,    \* ValidationContext::if_else: Vec<IfElseState>
    arena,      \* func.builder.arena: InstrSeqId -> list of (instr, loc)
    entry,      \* func.builder.entry: Option<InstrSeqId> (0 = None)
    frames,     \* history: the frame each sequence was allocated for
    status,     \* "run" | "ok" (Ok(func)) | "err" (Err) | "panic"
    err,        \* the error of the failing operator, NoErr otherwise
    err_offset, \* the byte offset the returned error carries, if any
    emitted,    \* what the last emit_locals produced (<<>> before it)
    other       \* the state local to a second call of parse that runs at
                \* the same time on another body (<<>> when there is none)

vars == <<body, result, indices, args, operands, controls, if_else, arena,
          entry, frames, status, err, err_offset, emitted, other>>

----------------------------------------------------------------------------
(* Bounds of the model.                                                    *)

MaxOps == 4        \* operators read per body
MaxFrames == 3     \* control frames open at once

----------------------------------------------------------------------------
(* Values.                                                                 *)

I32 == "i32"
I64 == "i64"
None == "none"      \* Option::None: the polymorphic operand, an absent id
NoErr == "none"
NoSeq == 0          \* Option::<InstrSeqId>::None (sequence ids start at 1)
NoOffset == -1      \* an error that is a message only

Last(s) == s[Len(s)]
Front(s) == SubSeq(s, 1, Len(s) - 1)

RECURSIVE Reverse(_)
Reverse(s) == IF s = <<>> THEN <<>> ELSE Append(Reverse(Tail(s)), Head(s))

(* module.types: the function types a block type index resolves to.        *)
Types == << [params |-> <<I32>>, results |-> <<I64>>],
            [params |-> <<I32>>, results |-> <<I32>>] >>

(* wasmparser::TypeOrFuncType: Type(EmptyBlockType), Type(t), FuncType(i). *)
EmptyTy == [k |-> "Empty", ty |-> None, idx |-> 0]
ValTy(t) == [k |-> "Type", ty |-> t, idx |-> 0]
FuncTy(i) == [k |-> "FuncType", ty |-> None, idx |-> i]

(* Block types of the bodies: none, one result, params and a result, and   *)
(* an index the module does not define.                                    *)
BlockTys == {EmptyTy, ValTy(I32), FuncTy(1), FuncTy(2)}

(* context.indices and context.module: the ids of the module's memories    *)
(* and data segments and of the function's locals, by index, and the type  *)
(* of each local, by id.                                                   *)
NoIndices ==
    [memories |-> <<>>, data |-> <<>>, locals |-> <<>>, local_tys |-> <<>>]

(* The validation context while one operator is validated: the stacks, the *)
(* arena, the error that ended the operator (if any) and the value the     *)
(* last helper returned.                                                   *)
Ctx(ops, ctl, ie, ar, fr) ==
    [operands |-> ops, controls |-> ctl, if_else |-> ie, arena |-> ar,
     frames |-> fr, err |-> NoErr, ret |-> None]

Fail(c, e) == [c EXCEPT !.err = e]
Ret(c, v) == [c EXCEPT !.ret = v]

(* An instruction of the IR with its location: the nested sequences of a   *)
(* Block, Loop or IfElse, the target sequences of a branch with the types  *)
(* popped for it, the type and value of a constant.                        *)
Instr(name, seqs, tgts, tys, value, loc) ==
    [i |-> name, seqs |-> seqs, tgts |-> tgts, tys |-> tys, value |-> value,
     loc |-> loc]

----------------------------------------------------------------------------
(* context.rs: the operand stack.                                          *)

push_operand(c, op) ==
    IF c.err # NoErr THEN c
    ELSE [c EXCEPT !.operands = Append(@, op)]

RECURSIVE push_operands(_, _)
push_operands(c, types) ==
    IF c.err # NoErr \/ types = <<>> THEN c
    ELSE push_operands(push_operand(c, Head(types)), Tail(types))

pop_operand(c) ==
    IF c.err # NoErr THEN c
    ELSE IF c.controls # <<>> /\ Len(c.operands) = Last(c.controls).height
    THEN IF Last(c.controls).unreachable
         THEN Ret(c, None)
         ELSE Fail(c, "StackUnderflow")
    ELSE IF c.operands = <<>>
    THEN Fail(c, "Panic")
    ELSE [c EXCEPT !.ret = Last(c.operands), !.operands = Front(c.operands)]

pop_operand_expected(c, expected) ==
    LET check(p) ==
            IF p.err # NoErr THEN p
            ELSE IF p.ret = None THEN Ret(p, expected)
            ELSE IF expected = None THEN p
            ELSE IF p.ret # expected THEN Fail(p, "TypeMismatch")
            ELSE p
    IN check(pop_operand(c))

RECURSIVE pop_rev(_, _)
pop_rev(c, rev) ==
    IF c.err # NoErr \/ rev = <<>> THEN c
    ELSE pop_rev(pop_operand_expected(c, Head(rev)), Tail(rev))

pop_operands(c, expected) == pop_rev(c, Reverse(expected))

----------------------------------------------------------------------------
(* context.rs: the control stack.                                          *)

label_types(frame) ==
    IF frame.kind = "Loop" THEN frame.start_types ELSE frame.end_types

push_control(c, kind, start_types, end_types) ==
    IF c.err # NoErr THEN c
    ELSE LET block == Len(c.arena) + 1
             frame == [kind |-> kind, start_types |-> start_types,
                       end_types |-> end_types, height |-> Len(c.operands),
                       unreachable |-> FALSE, block |-> block]
         IN Ret(push_operands([c EXCEPT !.arena = Append(@, <<>>),
                                        !.frames = Append(@, frame),
                                        !.controls = Append(@, frame)],
                              start_types),
                block)

pop_control(c) ==
    IF c.err # NoErr THEN c
    ELSE IF c.controls = <<>> THEN Fail(c, "NoFrame")
    ELSE LET frame == Last(c.controls)
             check(p) ==
                 IF p.err # NoErr THEN p
                 ELSE IF Len(p.operands) # frame.height
                 THEN Fail(p, "StackHeightMismatch")
                 ELSE [p EXCEPT !.controls = Front(@), !.ret = frame]
         IN check(pop_operands(c, frame.end_types))

control_ok(c, n) == n < Len(c.controls)
control(c, n) == c.controls[Len(c.controls) - n]

(* Faulty variant: the operand stack is cut at the height of the bottom   *)
(* frame, not of the innermost one.                                        *)
unreachable_ToBottom(c) ==
    IF c.err # NoErr THEN c
    ELSE IF c.controls = <<>> THEN Fail(c, "Panic")
    ELSE LET n == Len(c.controls)
             height == c.controls[1].height
         IN [c EXCEPT !.controls[n].unreachable = TRUE,
                      !.operands = IF Len(@) > height
                                   THEN SubSeq(@, 1, height) ELSE @]

unreachable(c) ==
    IF c.err # NoErr THEN c
    ELSE IF c.controls = <<>> THEN Fail(c, "Panic")
    ELSE LET n == Len(c.controls)
             height == c.controls[n].height
         IN [c EXCEPT !.controls[n].unreachable = TRUE,
                      !.operands = IF Len(@) > height
                                   THEN SubSeq(@, 1, height) ELSE @]

(* Faulty variant: the instruction is put in front of the sequence.        *)
alloc_instr_in_block_Front(c, block, instr) ==
    [c EXCEPT !.arena[block] = <<instr>> \o @]

alloc_instr_in_block(c, block, instr) ==
    [c EXCEPT !.arena[block] = Append(@, instr)]

alloc_instr_in_control(c, n, instr) ==
    IF c.err # NoErr THEN c
    ELSE IF ~control_ok(c, n) THEN Fail(c, "UnknownLabel")
    ELSE alloc_instr_in_block(c, control(c, n).block, instr)

alloc_instr(c, instr) ==
    IF c.err # NoErr THEN c
    ELSE IF ~control_ok(c, 0) THEN Fail(c, "Panic")
    ELSE alloc_instr_in_block(c, control(c, 0).block, instr)

----------------------------------------------------------------------------
(* context.indices: index resolution.                                      *)

get_memory(c, index) ==
    IF c.err # NoErr THEN c
    ELSE IF index >= Len(indices.memories) THEN Fail(c, "UnknownIndex")
    ELSE Ret(c, indices.memories[index + 1])

get_data(c, index) ==
    IF c.err # NoErr THEN c
    ELSE IF index >= Len(indices.data) THEN Fail(c, "UnknownIndex")
    ELSE Ret(c, indices.data[index + 1])

get_local(c, index) ==
    IF c.err # NoErr THEN c
    ELSE IF index >= Len(indices.locals) THEN Fail(c, "UnknownIndex")
    ELSE Ret(c, indices.locals[index + 1])

(* module.locals.get(local).ty()                                           *)
local_ty(local) == indices.local_tys[local]

----------------------------------------------------------------------------
(* Block type resolution (mod.rs:258-282).                                 *)

type_ok(ty) == ty.k # "FuncType" \/ ty.idx < Len(Types)

block_result_tys(ty) ==
    IF ty.k = "Empty" THEN <<>>
    ELSE IF ty.k = "Type" THEN <<ty.ty>>
    ELSE Types[ty.idx + 1].results

block_param_tys(ty) ==
    IF ty.k = "FuncType" THEN Types[ty.idx + 1].params ELSE <<>>

----------------------------------------------------------------------------
(* validate_instruction, one operator per definition.                      *)

const_(c, ty, value, loc) ==
    push_operand(alloc_instr(c, Instr("Const", <<>>, <<>>, <<ty>>, value, loc)), ty)

one_op(c, input, output, op, loc) ==
    push_operand(
        alloc_instr(pop_operand_expected(c, input),
                    Instr("Unop", <<>>, <<>>, <<op>>, 0, loc)),
        output)

two_ops(c, lhs, rhs, output, op, loc) ==
    push_operand(
        alloc_instr(pop_operand_expected(pop_operand_expected(c, rhs), lhs),
                    Instr("Binop", <<>>, <<>>, <<op>>, 0, loc)),
        output)

binop(c, ty, op, loc) == two_ops(c, ty, ty, ty, op, loc)
testop(c, ty, op, loc) == one_op(c, ty, I32, op, loc)

(* MemArg.align is a u32; it is kept as its two halves of 16 bits, the     *)
(* value being hi * 2^16 + lo. `1 << n` shifts by n modulo 32.             *)

(* Faulty variant: flags = 32 pass the alignment check.                    *)
mem_arg_Inclusive(c, arg) ==
    IF c.err # NoErr THEN c
    ELSE IF arg.flags > 32 THEN Fail(c, "InvalidAlignment")
    ELSE Ret(c, [align |->
                    [hi |-> IF arg.flags % 32 >= 16
                            THEN 2 ^ ((arg.flags % 32) - 16) ELSE 0,
                     lo |-> IF arg.flags % 32 < 16
                            THEN 2 ^ (arg.flags % 32) ELSE 0],
                 offset |-> arg.offset])

mem_arg(c, arg) ==
    IF c.err # NoErr THEN c
    ELSE IF arg.flags >= 32 THEN Fail(c, "InvalidAlignment")
    ELSE Ret(c, [align |->
                    [hi |-> IF arg.flags % 32 >= 16
                            THEN 2 ^ ((arg.flags % 32) - 16) ELSE 0,
                     lo |-> IF arg.flags % 32 < 16
                            THEN 2 ^ (arg.flags % 32) ELSE 0],
                 offset |-> arg.offset])

(* Faulty variant: the Load node is appended before the address is popped *)
(* and the memory and the alignment are checked.                           *)
load_AllocFirst(c, arg, ty, kind, loc) ==
    LET checked(q) ==
            push_operand(
                mem_arg(get_memory(pop_operand_expected(q, I32), 0), arg), ty)
    IN checked(alloc_instr(c, Instr("Load", <<>>, <<>>, <<ty>>,
                                    [kind |-> kind], loc)))

load(c, arg, ty, kind, loc) ==
    LET node(q, memory) ==
            IF q.err # NoErr THEN q
            ELSE push_operand(
                     alloc_instr(q, Instr("Load", <<>>, <<>>, <<ty>>,
                                          [arg |-> q.ret, kind |-> kind,
                                           memory |-> memory], loc)),
                     ty)
        with_memory(p) == node(mem_arg(p, arg), p.ret)
    IN with_memory(get_memory(pop_operand_expected(c, I32), 0))

(* Faulty variant: `drop` takes the top operand without asking the frame. *)
Op_Drop_Unchecked(c, loc) ==
    alloc_instr(IF c.operands = <<>> THEN Fail(c, "Panic")
                ELSE [c EXCEPT !.operands = Front(@)],
                Instr("Drop", <<>>, <<>>, <<>>, 0, loc))

Op_Drop(c, loc) ==
    alloc_instr(pop_operand(c), Instr("Drop", <<>>, <<>>, <<>>, 0, loc))

(* Faulty variant: `select` pushes the polymorphic operand, whatever it   *)
(* popped.                                                                 *)
Op_Select_PushNone(c, loc) ==
    LET push(r) ==
            push_operand(
                alloc_instr(r, Instr("Select", <<>>, <<>>, <<>>, 0, loc)), None)
        second(q) ==
            IF q.err # NoErr THEN q
            ELSE IF q.ret \notin {I32, I64, "f32", "f64", None}
            THEN Fail(q, "TypeMismatch")
            ELSE push(pop_operand_expected(q, q.ret))
    IN second(pop_operand(pop_operand_expected(c, I32)))

Op_Select(c, loc) ==
    LET push(r) ==
            push_operand(
                alloc_instr(r, Instr("Select", <<>>, <<>>, <<>>, 0, loc)), r.ret)
        second(q) ==
            IF q.err # NoErr THEN q
            ELSE IF q.ret \notin {I32, I64, "f32", "f64", None}
            THEN Fail(q, "TypeMismatch")
            ELSE push(pop_operand_expected(q, q.ret))
    IN second(pop_operand(pop_operand_expected(c, I32)))

(* Faulty variant: `return` does not mark the frame unreachable.           *)
Op_Return_Unmarked(c, fn_results, loc) ==
    alloc_instr(pop_operands(c, fn_results),
                Instr("Return", <<>>, <<>>, <<>>, 0, loc))

Op_Return(c, fn_results, loc) ==
    unreachable(alloc_instr(pop_operands(c, fn_results),
                            Instr("Return", <<>>, <<>>, <<>>, 0, loc)))

Op_Unreachable(c, loc) ==
    unreachable(alloc_instr(c, Instr("Unreachable", <<>>, <<>>, <<>>, 0, loc)))

(* Faulty variant: the Block/Loop node goes to the new sequence, not the  *)
(* parent's.                                                               *)
Op_BlockLoop_InNewSeq(c, kind, ty, loc) ==
    IF ~type_ok(ty) THEN Fail(c, "UnknownIndex")
    ELSE LET param_tys == block_param_tys(ty)
             result_tys == block_result_tys(ty)
             alloc(q) ==
                 alloc_instr_in_control(
                     q, 0, Instr(kind, <<q.ret>>, <<>>, <<>>, 0, loc))
         IN alloc(push_control(pop_operands(c, param_tys), kind, param_tys,
                               result_tys))

Op_BlockLoop(c, kind, ty, loc) ==
    IF ~type_ok(ty) THEN Fail(c, "UnknownIndex")
    ELSE LET param_tys == block_param_tys(ty)
             result_tys == block_result_tys(ty)
             alloc(q) ==
                 alloc_instr_in_control(
                     q, 1, Instr(kind, <<q.ret>>, <<>>, <<>>, 0, loc))
         IN alloc(push_control(pop_operands(c, param_tys), kind, param_tys,
                               result_tys))

(* Faulty variant: the Block node is appended twice.                      *)
Op_Block_Twice(c, ty, loc) ==
    LET again(q) ==
            IF q.err # NoErr THEN q
            ELSE alloc_instr_in_control(
                     q, 1, Instr("Block", <<Last(q.controls).block>>, <<>>,
                                 <<>>, 0, loc))
    IN again(Op_BlockLoop(c, "Block", ty, loc))

Op_Block(c, ty, loc) == Op_BlockLoop(c, "Block", ty, loc)

Op_Loop(c, ty, loc) == Op_BlockLoop(c, "Loop", ty, loc)

(* Faulty variant: `if` opens its frame without a side-stack entry.       *)
Op_If_NoState(c, ty, loc) ==
    IF ~type_ok(ty) THEN Fail(c, "UnknownIndex")
    ELSE push_control(
             pop_operands(pop_operand_expected(c, I32), block_param_tys(ty)),
             "If", block_param_tys(ty), block_result_tys(ty))

(* Faulty variant: `if` appends an IfElse node for its consequent to the  *)
(* enclosing sequence.                                                     *)
Op_If_WithNode(c, ty, loc) ==
    IF ~type_ok(ty) THEN Fail(c, "UnknownIndex")
    ELSE LET param_tys == block_param_tys(ty)
             result_tys == block_result_tys(ty)
             state(q) ==
                 IF q.err # NoErr THEN q
                 ELSE alloc_instr_in_control(
                          [q EXCEPT !.if_else =
                              Append(@, [consequent |-> q.ret,
                                         alternative |-> NoSeq])],
                          1, Instr("IfElse", <<q.ret>>, <<>>, <<>>, 0, loc))
         IN state(push_control(
                pop_operands(pop_operand_expected(c, I32), param_tys),
                "If", param_tys, result_tys))

Op_If(c, ty, loc) ==
    IF ~type_ok(ty) THEN Fail(c, "UnknownIndex")
    ELSE LET param_tys == block_param_tys(ty)
             result_tys == block_result_tys(ty)
             state(q) ==
                 IF q.err # NoErr THEN q
                 ELSE [q EXCEPT !.if_else =
                          Append(@, [consequent |-> q.ret,
                                     alternative |-> NoSeq])]
         IN state(push_control(
                pop_operands(pop_operand_expected(c, I32), param_tys),
                "If", param_tys, result_tys))

(* Faulty variant: `end` pushes the frame's start types back, not its end *)
(* types.                                                                  *)
Op_End_PushStart(c, loc) ==
    LET if_else_node(q, frame, consequent, alternative) ==
            push_operands(
                alloc_instr(q, Instr("IfElse", <<consequent, alternative>>,
                                     <<>>, <<>>, 0, loc)),
                frame.start_types)
        empty_else(q, frame, consequent) ==
            if_else_node(pop_control(q), frame, consequent, q.ret)
        closed(p) ==
            IF p.err # NoErr THEN p
            ELSE IF p.ret.kind \notin {"If", "Else"}
            THEN push_operands(p, p.ret.start_types)
            ELSE IF p.if_else = <<>> THEN Fail(p, "PanicIfElse")
            ELSE IF Last(p.if_else).alternative # NoSeq
            THEN if_else_node([p EXCEPT !.if_else = Front(@)], p.ret,
                              Last(p.if_else).consequent,
                              Last(p.if_else).alternative)
            ELSE empty_else(
                     push_control([p EXCEPT !.if_else = Front(@)], "Else",
                                  p.ret.start_types, p.ret.end_types),
                     p.ret, Last(p.if_else).consequent)
    IN closed(pop_control(c))

(* Faulty variant: the empty alternative of an `if` without `else` is     *)
(* dropped from the control stack without being checked against the      *)
(* result types.                                                           *)
Op_End_ElseUnchecked(c, loc) ==
    LET if_else_node(q, frame, consequent, alternative) ==
            push_operands(
                alloc_instr(q, Instr("IfElse", <<consequent, alternative>>,
                                     <<>>, <<>>, 0, loc)),
                frame.end_types)
        empty_else(q, frame, consequent) ==
            if_else_node([q EXCEPT !.controls = Front(@)], frame, consequent,
                         q.ret)
        closed(p) ==
            IF p.err # NoErr THEN p
            ELSE IF p.ret.kind \notin {"If", "Else"}
            THEN push_operands(p, p.ret.end_types)
            ELSE IF p.if_else = <<>> THEN Fail(p, "PanicIfElse")
            ELSE IF Last(p.if_else).alternative # NoSeq
            THEN if_else_node([p EXCEPT !.if_else = Front(@)], p.ret,
                              Last(p.if_else).consequent,
                              Last(p.if_else).alternative)
            ELSE empty_else(
                     push_control([p EXCEPT !.if_else = Front(@)], "Else",
                                  p.ret.start_types, p.ret.end_types),
                     p.ret, Last(p.if_else).consequent)
    IN closed(pop_control(c))

(* Faulty variant: the Else frame pushed for the empty alternative of an  *)
(* `if` without `else` stays on the control stack.                         *)
Op_End_ElseLeftOpen(c, loc) ==
    LET if_else_node(q, frame, consequent, alternative) ==
            push_operands(
                alloc_instr(q, Instr("IfElse", <<consequent, alternative>>,
                                     <<>>, <<>>, 0, loc)),
                frame.end_types)
        empty_else(q, frame, consequent) ==
            if_else_node(q, frame, consequent, q.ret)
        closed(p) ==
            IF p.err # NoErr THEN p
            ELSE IF p.ret.kind \notin {"If", "Else"}
            THEN push_operands(p, p.ret.end_types)
            ELSE IF p.if_else = <<>> THEN Fail(p, "PanicIfElse")
            ELSE IF Last(p.if_else).alternative # NoSeq
            THEN if_else_node([p EXCEPT !.if_else = Front(@)], p.ret,
                              Last(p.if_else).consequent,
                              Last(p.if_else).alternative)
            ELSE empty_else(
                     push_control([p EXCEPT !.if_else = Front(@)], "Else",
                                  p.ret.start_types, p.ret.end_types),
                     p.ret, Last(p.if_else).consequent)
    IN closed(pop_control(c))

(* The debug_assert_eq! lines of mod.rs:680,684 are not steps of the        *)
(* operator: a release build does not run them.                            *)
Op_End(c, loc) ==
    LET if_else_node(q, frame, consequent, alternative) ==
            push_operands(
                alloc_instr(q, Instr("IfElse", <<consequent, alternative>>,
                                     <<>>, <<>>, 0, loc)),
                frame.end_types)
        empty_else(q, frame, consequent) ==
            if_else_node(pop_control(q), frame, consequent, q.ret)
        closed(p) ==
            IF p.err # NoErr THEN p
            ELSE IF p.ret.kind \notin {"If", "Else"}
            THEN push_operands(p, p.ret.end_types)
            ELSE IF p.if_else = <<>> THEN Fail(p, "PanicIfElse")
            ELSE IF Last(p.if_else).alternative # NoSeq
            THEN if_else_node([p EXCEPT !.if_else = Front(@)], p.ret,
                              Last(p.if_else).consequent,
                              Last(p.if_else).alternative)
            ELSE empty_else(
                     push_control([p EXCEPT !.if_else = Front(@)], "Else",
                                  p.ret.start_types, p.ret.end_types),
                     p.ret, Last(p.if_else).consequent)
    IN closed(pop_control(c))

(* Faulty variant: `else` does not look at the kind of the frame it       *)
(* closes.                                                                 *)
Op_Else_AnyKind(c, loc) ==
    LET alternative(q) ==
            IF q.if_else = <<>> THEN Fail(q, "PanicIfElse")
            ELSE IF Last(q.if_else).alternative # NoSeq
            THEN Fail(q, "DuplicateElse")
            ELSE [q EXCEPT !.if_else[Len(q.if_else)].alternative = q.ret]
        opened(p) ==
            IF p.err # NoErr THEN p
            ELSE alternative(push_control(p, "Else", p.ret.start_types,
                                          p.ret.end_types))
    IN opened(pop_control(c))

Op_Else(c, loc) ==
    LET alternative(q) ==
            IF q.if_else = <<>> THEN Fail(q, "PanicIfElse")
            ELSE IF Last(q.if_else).alternative # NoSeq
            THEN Fail(q, "DuplicateElse")
            ELSE [q EXCEPT !.if_else[Len(q.if_else)].alternative = q.ret]
        opened(p) ==
            IF p.err # NoErr THEN p
            ELSE IF p.ret.kind # "If" THEN Fail(p, "StrayElse")
            ELSE alternative(push_control(p, "Else", p.ret.start_types,
                                          p.ret.end_types))
    IN opened(pop_control(c))

(* Faulty variant: the label of `br` is counted from the bottom of the    *)
(* control stack.                                                          *)
Op_Br_FromBottom(c, n, loc) ==
    IF ~control_ok(c, n) THEN Fail(c, "UnknownLabel")
    ELSE LET expected == label_types(c.controls[n + 1])
         IN unreachable(alloc_instr(pop_operands(c, expected),
                Instr("Br", <<>>, <<c.controls[n + 1].block>>, expected, 0,
                      loc)))

Op_Br(c, n, loc) ==
    IF ~control_ok(c, n) THEN Fail(c, "UnknownLabel")
    ELSE LET expected == label_types(control(c, n))
         IN unreachable(alloc_instr(pop_operands(c, expected),
                Instr("Br", <<>>, <<control(c, n).block>>, expected, 0, loc)))

(* Faulty variant: br_if leaves the label-typed operands popped, as a     *)
(* taken branch would.                                                     *)
Op_BrIf_Taken(c, n, loc) ==
    LET branch(p) ==
            IF p.err # NoErr THEN p
            ELSE IF ~control_ok(p, n) THEN Fail(p, "UnknownLabel")
            ELSE alloc_instr(pop_operands(p, label_types(control(p, n))),
                     Instr("BrIf", <<>>, <<control(p, n).block>>,
                           label_types(control(p, n)), 0, loc))
    IN branch(pop_operand_expected(c, I32))

Op_BrIf(c, n, loc) ==
    LET branch(p) ==
            IF p.err # NoErr THEN p
            ELSE IF ~control_ok(p, n) THEN Fail(p, "UnknownLabel")
            ELSE push_operands(
                     alloc_instr(pop_operands(p, label_types(control(p, n))),
                         Instr("BrIf", <<>>, <<control(p, n).block>>,
                               label_types(control(p, n)), 0, loc)),
                     label_types(control(p, n)))
    IN branch(pop_operand_expected(c, I32))

(* Faulty variant: the labels of a br_table are resolved, their label     *)
(* types are not compared.                                                 *)
RECURSIVE br_table_labels_Untyped(_, _, _)
br_table_labels_Untyped(c, labels, types) ==
    IF labels = <<>> THEN NoErr
    ELSE IF ~control_ok(c, Head(labels)) THEN "UnknownLabel"
    ELSE br_table_labels_Untyped(c, Tail(labels), types)

(* The loop over the labels of a br_table (mod.rs:762-782): the error of   *)
(* the first label that fails, NoErr when every label passes.              *)
RECURSIVE br_table_labels(_, _, _)
br_table_labels(c, labels, types) ==
    IF labels = <<>> THEN NoErr
    ELSE IF ~control_ok(c, Head(labels)) THEN "UnknownLabel"
    ELSE LET frame == control(c, Head(labels))
             lt == label_types(frame)
         IN IF Len(lt) # Len(types) THEN "TypeMismatch"
            ELSE IF frame.unreachable
            THEN br_table_labels(c, Tail(labels), types)
            ELSE IF \E i \in 1..Len(lt) : lt[i] # types[i] THEN "TypeMismatch"
            ELSE br_table_labels(c, Tail(labels), types)

Op_BrTable(c, labels, default, loc) ==
    IF ~control_ok(c, default) THEN Fail(c, "UnknownLabel")
    ELSE LET types == label_types(control(c, default))
             e == br_table_labels(c, labels, types)
             blocks == [i \in 1..Len(labels) |-> control(c, labels[i]).block]
         IN IF e # NoErr THEN Fail(c, e)
            ELSE unreachable(alloc_instr(
                     pop_operands(pop_operand_expected(c, I32), types),
                     Instr("BrTable", <<>>,
                           Append(blocks, control(c, default).block),
                           types, 0, loc)))

Op_LocalGet(c, local_index, loc) ==
    LET node(q) ==
            IF q.err # NoErr THEN q
            ELSE push_operand(
                     alloc_instr(q, Instr("LocalGet", <<>>, <<>>, <<>>,
                                          [local |-> q.ret], loc)),
                     local_ty(q.ret))
    IN node(get_local(c, local_index))

Op_MemoryInit(c, segment, loc) ==
    LET node(q, memory) ==
            IF q.err # NoErr THEN q
            ELSE alloc_instr(q, Instr("MemoryInit", <<>>, <<>>, <<>>,
                                      [memory |-> memory, data |-> q.ret],
                                      loc))
        with_memory(p) == node(get_data(p, segment), p.ret)
    IN with_memory(get_memory(
           pop_operand_expected(
               pop_operand_expected(pop_operand_expected(c, I32), I32), I32),
           0))

(* Faulty variant: data.drop resolves its segment and appends nothing.    *)
Op_DataDrop_NoNode(c, segment, loc) == get_data(c, segment)

Op_DataDrop(c, segment, loc) ==
    LET node(q) ==
            IF q.err # NoErr THEN q
            ELSE alloc_instr(q, Instr("DataDrop", <<>>, <<>>, <<>>,
                                      [data |-> q.ret], loc))
    IN node(get_data(c, segment))

(* The argument mem_arg(memarg)? of alloc_instr (mod.rs:1135) is computed  *)
(* before the call.                                                        *)
Op_AtomicNotify(c, memarg, loc) ==
    LET node(q, memory) ==
            IF q.err # NoErr THEN q
            ELSE push_operand(
                     alloc_instr(q, Instr("AtomicNotify", <<>>, <<>>, <<>>,
                                          [arg |-> q.ret, memory |-> memory],
                                          loc)),
                     I32)
        with_memory(p) == node(mem_arg(p, memarg), p.ret)
    IN with_memory(get_memory(
           pop_operand_expected(pop_operand_expected(c, I32), I32), 0))

validate_instruction(c, inst, loc) ==
    CASE inst.op = "Nop" -> c
      [] inst.op = "I32Const" -> const_(c, I32, inst.value, loc)
      [] inst.op = "I64Const" -> const_(c, I64, inst.value, loc)
      [] inst.op = "I32Add" -> binop(c, I32, "I32Add", loc)
      [] inst.op = "I32Eqz" -> testop(c, I32, "I32Eqz", loc)
      [] inst.op = "Drop" -> Op_Drop(c, loc)
      [] inst.op = "Select" -> Op_Select(c, loc)
      [] inst.op = "Return" -> Op_Return(c, result, loc)
      [] inst.op = "Unreachable" -> Op_Unreachable(c, loc)
      [] inst.op = "Block" -> Op_Block(c, inst.ty, loc)
      [] inst.op = "Loop" -> Op_Loop(c, inst.ty, loc)
      [] inst.op = "If" -> Op_If(c, inst.ty, loc)
      [] inst.op = "Else" -> Op_Else(c, loc)
      [] inst.op = "End" -> Op_End(c, loc)
      [] inst.op = "Br" -> Op_Br(c, inst.relative_depth, loc)
      [] inst.op = "BrIf" -> Op_BrIf(c, inst.relative_depth, loc)
      [] inst.op = "BrTable" -> Op_BrTable(c, inst.labels, inst.default, loc)
      [] inst.op = "LocalGet" -> Op_LocalGet(c, inst.local_index, loc)
      [] inst.op = "MemoryInit" -> Op_MemoryInit(c, inst.segment, loc)
      [] inst.op = "DataDrop" -> Op_DataDrop(c, inst.segment, loc)
      [] inst.op = "I32Load" -> load(c, inst.memarg, I32, "I32", loc)
      [] inst.op = "AtomicNotify" -> Op_AtomicNotify(c, inst.memarg, loc)

----------------------------------------------------------------------------
(* LocalFunction::parse (mod.rs:40-85).                                    *)

(* The state after mod.rs:49-67, for a function with the argument locals   *)
(* `a` in a module with the index space `ind`: empty stacks, the           *)
(* FunctionEntry frame pushed with the function's result types, its        *)
(* sequence the entry.                                                     *)
ParseStartIn(res, ind, a) ==
    LET started(c) ==
            /\ body = <<>>
            /\ result = res
            /\ indices = ind
            /\ args = a
            /\ emitted = <<>>
            /\ other = <<>>
            /\ operands = c.operands
            /\ controls = c.controls
            /\ if_else = c.if_else
            /\ arena = c.arena
            /\ frames = c.frames
            /\ entry = c.ret
            /\ status = "run"
            /\ err = NoErr
            /\ err_offset = NoOffset
    IN started(push_control(Ctx(<<>>, <<>>, <<>>, <<>>, <<>>),
                            "FunctionEntry", <<>>, res))

(* parse of a function without locals, in a module without memories and   *)
(* data segments.                                                          *)
ParseStart(res) == ParseStartIn(res, NoIndices, <<>>)

(* Faulty variant: the read loop goes on after an operator that failed.   *)
Step_Continues(inst, pos, max) ==
    /\ status = "run"
    /\ Len(body) < max
    /\ LET validated(c) ==
               /\ body' = Append(body, inst)
               /\ operands' = c.operands
               /\ controls' = c.controls
               /\ if_else' = c.if_else
               /\ arena' = c.arena
               /\ frames' = c.frames
               /\ err' = c.err
               /\ status' = "run"
       IN validated(validate_instruction(
                        Ctx(operands, controls, if_else, arena, frames),
                        inst, pos))
    /\ err_offset' = NoOffset
    /\ UNCHANGED <<result, indices, args, entry, emitted, other>>

(* One iteration of the read loop (mod.rs:68-76): the reader is not at eof, *)
(* `inst` is read at offset `pos` and validated; an error ends the parse,  *)
(* and is returned as validate_instruction made it (mod.rs:75): bail! and  *)
(* the helpers of the context make it of a message.                        *)
Step(inst, pos, max) ==
    /\ status = "run"
    /\ Len(body) < max
    /\ LET validated(c) ==
               /\ body' = Append(body, inst)
               /\ operands' = c.operands
               /\ controls' = c.controls
               /\ if_else' = c.if_else
               /\ arena' = c.arena
               /\ frames' = c.frames
               /\ err' = c.err
               /\ status' = IF c.err = NoErr THEN "run"
                            ELSE IF c.err \in {"Panic", "PanicIfElse"}
                            THEN "panic"
                            ELSE "err"
       IN validated(validate_instruction(
                        Ctx(operands, controls, if_else, arena, frames),
                        inst, pos))
    /\ err_offset' = NoOffset
    /\ UNCHANGED <<result, indices, args, entry, emitted, other>>

(* Faulty variant: at eof the function is returned, whatever is open.     *)
Eof_Accepts ==
    /\ status = "run"
    /\ status' = "ok" /\ err' = NoErr
    /\ UNCHANGED <<body, result, indices, args, operands, controls, if_else,
                   arena, entry, frames, err_offset, emitted, other>>

(* The reader is at eof (mod.rs:77-84); the debug_assert! lines 81-82 are  *)
(* not steps of a release build.                                           *)
Eof ==
    /\ status = "run"
    /\ IF controls # <<>>
       THEN status' = "err" /\ err' = "UnexpectedEof"
       ELSE status' = "ok" /\ err' = NoErr
    /\ UNCHANGED <<body, result, indices, args, operands, controls, if_else,
                   arena, entry, frames, err_offset, emitted, other>>

Nop(max) == Step([op |-> "Nop"], Len(body), max)
I32Const(values, max) ==
    \E v \in values : Step([op |-> "I32Const", value |-> v], Len(body), max)
I64Const(values, max) ==
    \E v \in values : Step([op |-> "I64Const", value |-> v], Len(body), max)
I32Add(max) == Step([op |-> "I32Add"], Len(body), max)
Drop(max) == Step([op |-> "Drop"], Len(body), max)
Select(max) == Step([op |-> "Select"], Len(body), max)
Return(max) == Step([op |-> "Return"], Len(body), max)
Unreachable(max) == Step([op |-> "Unreachable"], Len(body), max)
Block(tys, max) ==
    \E ty \in tys :
        /\ Len(controls) < MaxFrames
        /\ Step([op |-> "Block", ty |-> ty], Len(body), max)
Loop(tys, max) ==
    \E ty \in tys :
        /\ Len(controls) < MaxFrames
        /\ Step([op |-> "Loop", ty |-> ty], Len(body), max)
If(tys, max) ==
    \E ty \in tys :
        /\ Len(controls) < MaxFrames
        /\ Step([op |-> "If", ty |-> ty], Len(body), max)
Else(max) == Step([op |-> "Else"], Len(body), max)
End(max) == Step([op |-> "End"], Len(body), max)
Br(depths, max) ==
    \E n \in depths : Step([op |-> "Br", relative_depth |-> n], Len(body), max)
BrIf(depths, max) ==
    \E n \in depths :
        Step([op |-> "BrIf", relative_depth |-> n], Len(body), max)
BrTable(tables, depths, max) ==
    \E t \in tables, d \in depths :
        Step([op |-> "BrTable", labels |-> t, default |-> d], Len(body), max)

LocalGet(locals, max) ==
    \E n \in locals :
        Step([op |-> "LocalGet", local_index |-> n], Len(body), max)
MemoryInit(segments, max) ==
    \E n \in segments :
        Step([op |-> "MemoryInit", segment |-> n], Len(body), max)
DataDrop(segments, max) ==
    \E n \in segments :
        Step([op |-> "DataDrop", segment |-> n], Len(body), max)
I32Load(memargs, max) ==
    \E a \in memargs : Step([op |-> "I32Load", memarg |-> a], Len(body), max)
AtomicNotify(memargs, max) ==
    \E a \in memargs :
        Step([op |-> "AtomicNotify", memarg |-> a], Len(body), max)

(* The reader is not at eof and body.read_with_offset()? fails             *)
(* (mod.rs:69): the bytes at the reader's offset decode to no operator,    *)
(* and the reader's error names that offset.                               *)
ReadFails(max) ==
    /\ status = "run"
    /\ Len(body) < max
    /\ status' = "err"
    /\ err' = "Malformed"
    /\ err_offset' = Len(body)
    /\ UNCHANGED <<body, result, indices, args, operands, controls, if_else,
                   arena, entry, frames, emitted, other>>

(* Relative depths, br_table label lists and constants of the bodies.      *)
Depths == {0, 1}
Tables == {<<>>, <<1>>}
Values == {7}

Results == {<<>>, <<I32>>}

Init == \E res \in Results : ParseStart(res)

Next ==
    \/ Nop(MaxOps)
    \/ I32Const(Values, MaxOps)
    \/ I64Const(Values, MaxOps)
    \/ I32Add(MaxOps)
    \/ Drop(MaxOps)
    \/ Select(MaxOps)
    \/ Return(MaxOps)
    \/ Unreachable(MaxOps)
    \/ Block(BlockTys, MaxOps)
    \/ Loop(BlockTys, MaxOps)
    \/ If(BlockTys, MaxOps)
    \/ Else(MaxOps)
    \/ End(MaxOps)
    \/ Br(Depths, MaxOps)
    \/ BrIf(Depths, MaxOps)
    \/ BrTable(Tables, Depths, MaxOps)
    \/ Eof

Spec == Init /\ [][Next]_vars

(* parse is not suspended: while the loop of mod.rs:68-76 or the exit of   *)
(* mod.rs:77-84 has a step to take, it takes one.                          *)
SpecTerm == Init /\ [][Next]_vars /\ WF_vars(Next)

----------------------------------------------------------------------------
(* parse on bodies of constants and ifs, in a function of type () -> i32.  *)

MaxOpsIf == 5      \* operators read per body

(* Block types of the ifs: no result, one i32 result.                      *)
IfTys == {EmptyTy, ValTy(I32)}
ValuesIf == {1, 7}

InitIf == ParseStart(<<I32>>)

NextIf ==
    \/ I32Const(ValuesIf, MaxOpsIf)
    \/ Unreachable(MaxOpsIf)
    \/ If(IfTys, MaxOpsIf)
    \/ Else(MaxOpsIf)
    \/ End(MaxOpsIf)
    \/ Eof

SpecIf == InitIf /\ [][NextIf]_vars

----------------------------------------------------------------------------
(* parse on bodies of branches, in a function of type () -> i64.           *)

MaxOpsBr == 6      \* operators read per body

(* A block without params and results, a loop of type (i32) -> (i64).      *)
BlockTysBr == {EmptyTy}
LoopTysBr == {FuncTy(0)}
ValuesBr == {0}

InitBr == ParseStart(<<I64>>)

NextBr ==
    \/ I32Const(ValuesBr, MaxOpsBr)
    \/ Unreachable(MaxOpsBr)
    \/ Block(BlockTysBr, MaxOpsBr)
    \/ Loop(LoopTysBr, MaxOpsBr)
    \/ End(MaxOpsBr)
    \/ Br(Depths, MaxOpsBr)
    \/ BrIf(Depths, MaxOpsBr)
    \/ BrTable(Tables, Depths, MaxOpsBr)
    \/ Eof

SpecBr == InitBr /\ [][NextBr]_vars

----------------------------------------------------------------------------
(* parse on bodies with unreachable code, in a function of type () -> i32. *)

MaxOpsDead == 5    \* operators read per body

InitDead == ParseStart(<<I32>>)

NextDead ==
    \/ I32Const(ValuesBr, MaxOpsDead)
    \/ I32Add(MaxOpsDead)
    \/ Drop(MaxOpsDead)
    \/ Select(MaxOpsDead)
    \/ Unreachable(MaxOpsDead)
    \/ Return(MaxOpsDead)
    \/ Block(IfTys, MaxOpsDead)
    \/ If(IfTys, MaxOpsDead)
    \/ Else(MaxOpsDead)
    \/ End(MaxOpsDead)
    \/ Br(Depths, MaxOpsDead)
    \/ BrTable(Tables, Depths, MaxOpsDead)
    \/ Eof

SpecDead == InitDead /\ [][NextDead]_vars

----------------------------------------------------------------------------
(* parse on bodies of blocks and br_tables, in a function of type () -> (). *)

MaxOpsTable == 5   \* operators read per body

(* Blocks without a result, with an i32 and with an i64 result.            *)
BlockTysTable == {EmptyTy, ValTy(I32), ValTy(I64)}

(* Label lists: the enclosing and the innermost frame; a label no body of  *)
(* MaxFrames frames resolves, before the enclosing frame.                  *)
TablesTable == {<<1, 0>>, <<3, 1>>}
DepthsTable == {0}

InitTable == ParseStart(<<>>)

NextTable ==
    \/ I32Const(ValuesBr, MaxOpsTable)
    \/ Unreachable(MaxOpsTable)
    \/ Block(BlockTysTable, MaxOpsTable)
    \/ End(MaxOpsTable)
    \/ BrTable(TablesTable, DepthsTable, MaxOpsTable)
    \/ Eof

SpecTable == InitTable /\ [][NextTable]_vars

----------------------------------------------------------------------------
(* parse on bodies of memory and data operators, in a function of type     *)
(* () -> () of a module with or without a memory and data segments.        *)

MaxOpsMem == 6     \* operators read per body

(* Index spaces: empty; data segments 0 and 1 without a memory; a memory   *)
(* and the two data segments.                                              *)
IndicesMem ==
    { NoIndices,
      [memories |-> <<>>, data |-> <<1, 0>>, locals |-> <<>>,
       local_tys |-> <<>>],
      [memories |-> <<0>>, data |-> <<1, 0>>, locals |-> <<>>,
       local_tys |-> <<>>] }

(* Memory immediates: 4-byte alignment, and flags out of range.            *)
MemArgs == {[flags |-> 2, offset |-> 0], [flags |-> 32, offset |-> 0]}

(* Data segment indices: the two the modules define, and one they do not.  *)
Segments == {0, 1, 2}

InitMem == \E ind \in IndicesMem : ParseStartIn(<<>>, ind, <<>>)

NextMem ==
    \/ I32Const(ValuesBr, MaxOpsMem)
    \/ Drop(MaxOpsMem)
    \/ I32Load(MemArgs, MaxOpsMem)
    \/ AtomicNotify(MemArgs, MaxOpsMem)
    \/ MemoryInit(Segments, MaxOpsMem)
    \/ DataDrop(Segments, MaxOpsMem)
    \/ Block(BlockTysBr, MaxOpsMem)
    \/ End(MaxOpsMem)
    \/ ReadFails(MaxOpsMem)
    \/ Eof

SpecMem == InitMem /\ [][NextMem]_vars

----------------------------------------------------------------------------
(* Two calls of parse at the same time, for two functions of type () -> () *)
(* of one module.  Everything parse changes is created in the call         *)
(* (mod.rs:49-61): func, operands, controls, ctx; module and indices are   *)
(* shared references that are only read.                                   *)

(* The second call sets up its own state (mod.rs:49-67).                   *)
OtherStart ==
    /\ other = <<>>
    /\ LET started(c) ==
               other' = <<[body |-> <<>>, operands |-> c.operands,
                           controls |-> c.controls, if_else |-> c.if_else,
                           arena |-> c.arena, frames |-> c.frames,
                           entry |-> c.ret, status |-> "run", err |-> NoErr]>>
       IN started(push_control(Ctx(<<>>, <<>>, <<>>, <<>>, <<>>),
                               "FunctionEntry", <<>>, result))
    /\ UNCHANGED <<body, result, indices, args, operands, controls, if_else,
                   arena, entry, frames, status, err, err_offset, emitted>>

(* Faulty variant: the second call works on the operand stack of the      *)
(* first.                                                                  *)
OtherStep_SharedOperands(inst, pos, max) ==
    /\ other # <<>>
    /\ status = "run"
    /\ other[1].status = "run"
    /\ Len(other[1].body) < max
    /\ LET validated(c) ==
               /\ operands' = c.operands
               /\ other' =
                      <<[other[1] EXCEPT
                            !.body = Append(@, inst),
                            !.operands = c.operands,
                            !.controls = c.controls,
                            !.if_else = c.if_else,
                            !.arena = c.arena,
                            !.frames = c.frames,
                            !.err = c.err,
                            !.status = IF c.err = NoErr THEN "run"
                                       ELSE IF c.err \in {"Panic", "PanicIfElse"}
                                       THEN "panic"
                                       ELSE "err"]>>
       IN validated(validate_instruction(
                        Ctx(operands, other[1].controls, other[1].if_else,
                            other[1].arena, other[1].frames),
                        inst, pos))
    /\ UNCHANGED <<body, result, indices, args, controls, if_else, arena,
                   entry, frames, status, err, err_offset, emitted>>

(* One iteration of the read loop of the second call (mod.rs:68-76).       *)
OtherStep(inst, pos, max) ==
    /\ other # <<>>
    /\ other[1].status = "run"
    /\ Len(other[1].body) < max
    /\ LET validated(c) ==
               other' =
                   <<[other[1] EXCEPT
                         !.body = Append(@, inst),
                         !.operands = c.operands,
                         !.controls = c.controls,
                         !.if_else = c.if_else,
                         !.arena = c.arena,
                         !.frames = c.frames,
                         !.err = c.err,
                         !.status = IF c.err = NoErr THEN "run"
                                    ELSE IF c.err \in {"Panic", "PanicIfElse"}
                                    THEN "panic"
                                    ELSE "err"]>>
       IN validated(validate_instruction(
                        Ctx(other[1].operands, other[1].controls,
                            other[1].if_else, other[1].arena, other[1].frames),
                        inst, pos))
    /\ UNCHANGED <<body, result, indices, args, operands, controls, if_else,
                   arena, entry, frames, status, err, err_offset, emitted>>

(* The reader of the second call is at eof (mod.rs:77-84).                 *)
OtherEof ==
    /\ other # <<>>
    /\ other[1].status = "run"
    /\ other' = <<[other[1] EXCEPT
                      !.status = IF other[1].controls # <<>> THEN "err" ELSE "ok",
                      !.err = IF other[1].controls # <<>>
                              THEN "UnexpectedEof" ELSE NoErr]>>
    /\ UNCHANGED <<body, result, indices, args, operands, controls, if_else,
                   arena, entry, frames, status, err, err_offset, emitted>>

MaxOpsPar == 3     \* operators read per body

(* The operators of the second body.                                       *)
OpsPar ==
    { [op |-> "I32Const", value |-> 0], [op |-> "Drop"], [op |-> "I32Add"],
      [op |-> "Block", ty |-> EmptyTy], [op |-> "End"] }

OtherReads(ops, max) ==
    \E inst \in ops : OtherStep(inst, Len(other[1].body), max)

InitPar == ParseStart(<<>>)

NextPar ==
    \/ I32Const(ValuesBr, MaxOpsPar)
    \/ Drop(MaxOpsPar)
    \/ I32Add(MaxOpsPar)
    \/ Block(BlockTysBr, MaxOpsPar)
    \/ End(MaxOpsPar)
    \/ Eof
    \/ OtherStart
    \/ OtherReads(OpsPar, MaxOpsPar)
    \/ OtherEof

SpecPar == InitPar /\ [][NextPar]_vars

(* parse run alone on the operators `b`: the context after the last of     *)
(* them, or after the first that fails.                                    *)
RECURSIVE parse_alone(_)
parse_alone(b) ==
    IF b = <<>>
    THEN push_control(Ctx(<<>>, <<>>, <<>>, <<>>, <<>>), "FunctionEntry",
                      <<>>, result)
    ELSE LET next(prev) ==
                 IF prev.err # NoErr THEN prev
                 ELSE validate_instruction(
                          Ctx(prev.operands, prev.controls, prev.if_else,
                              prev.arena, prev.frames),
                          Last(b), Len(b) - 1)
         IN next(parse_alone(Front(b)))

----------------------------------------------------------------------------
(* The finished function (mod.rs:100-143).                                 *)

entry_block == entry

(* ir::dfs_in_order: the sequences it starts (start_instr_seq), in order:  *)
(* `id`, then for each instruction of `id` its nested sequences.           *)
RECURSIVE dfs_in_order(_)
RECURSIVE dfs_instrs(_, _)
dfs_in_order(id) == <<id>> \o dfs_instrs(arena[id], 1)
dfs_instrs(instrs, k) ==
    IF k > Len(instrs) THEN <<>>
    ELSE (IF Len(instrs[k].seqs) >= 1 THEN dfs_in_order(instrs[k].seqs[1]) ELSE <<>>)
      \o (IF Len(instrs[k].seqs) >= 2 THEN dfs_in_order(instrs[k].seqs[2]) ELSE <<>>)
      \o dfs_instrs(instrs, k + 1)

RECURSIVE SumLen(_)
SumLen(ids) == IF ids = <<>> THEN 0 ELSE Len(arena[Head(ids)]) + SumLen(Tail(ids))

(* Faulty variant: only the entry sequence is counted.                    *)
size_EntryOnly == Len(arena[entry_block])

size == SumLen(dfs_in_order(entry_block))

(* The data ids handed to visit_data_id for the instructions of `id`:     *)
(* those of its MemoryInit and DataDrop instructions.                      *)
DataIdsOf(id) ==
    {arena[id][k].value.data :
        k \in {j \in 1..Len(arena[id]) :
                  arena[id][j].i \in {"MemoryInit", "DataDrop"}}}

(* Faulty variant: only the entry sequence is visited.                    *)
used_data_segments_EntryOnly == DataIdsOf(entry_block)

used_data_segments ==
    LET seqs == dfs_in_order(entry_block)
    IN UNION {DataIdsOf(seqs[n]) : n \in 1..Len(seqs)}

----------------------------------------------------------------------------
(* LocalFunction::emit_locals (mod.rs:173-244).                            *)

(* The local ids handed to visit_local_id for the instructions of `id`.    *)
LocalIdsOf(id) ==
    {arena[id][k].value.local :
        k \in {j \in 1..Len(arena[id]) : arena[id][j].i = "LocalGet"}}

used_locals ==
    LET seqs == dfs_in_order(entry_block)
    IN UNION {LocalIdsOf(seqs[n]) : n \in 1..Len(seqs)}

(* The orders in which a hash set may hand out its elements.               *)
Orders(S) ==
    {o \in [1..Cardinality(S) -> S] : \A i, j \in DOMAIN o : o[i] = o[j] => i = j}

(* Vec::sort_unstable on local ids.                                        *)
sort_unstable(v) == SortSeq(v, <)

(* The value types in the order of ValType's Ord, and their bytes in the   *)
(* binary format.                                                          *)
ValTypeOrd == <<I32, I64>>
ValTypeByte(ty) == IF ty = I32 THEN 127 ELSE 126

RECURSIVE leb128(_)
leb128(n) == IF n < 128 THEN <<n>> ELSE <<(n % 128) + 128>> \o leb128(n \div 128)

(* mod.rs:204-215: the used locals that are no arguments, by type, each    *)
(* list in the order of `used`.                                            *)
ty_to_locals(used) ==
    LET is_body(l) == \A i \in DOMAIN args : args[i] # l
        body_locals == SelectSeq(used, is_body)
    IN [ty \in {local_ty(body_locals[i]) : i \in DOMAIN body_locals} |->
           LET has_ty(l) == local_ty(l) = ty
           IN SelectSeq(body_locals, has_ty)]

(* BTreeMap::iter: the keys in ascending order.                            *)
btree_keys(map) ==
    LET is_key(ty) == ty \in DOMAIN map
    IN SelectSeq(ValTypeOrd, is_key)

(* Faulty variant: the keys in the order in which they were inserted.     *)
RECURSIVE first_seen(_, _)
first_seen(used, seen) ==
    IF used = <<>> THEN seen
    ELSE first_seen(Tail(used),
                    IF \E i \in DOMAIN seen : seen[i] = local_ty(Head(used))
                    THEN seen ELSE Append(seen, local_ty(Head(used))))

(* mod.rs:229-234: the locals of the groups, in the order of the keys.     *)
RECURSIVE grouped(_, _)
grouped(keys, map) ==
    IF keys = <<>> THEN <<>> ELSE map[Head(keys)] \o grouped(Tail(keys), map)

(* mod.rs:217-234: arguments from 0 in their order (a later insert of the  *)
(* same id replaces the earlier one), then the grouped locals.             *)
local_map(rest) ==
    [l \in {args[i] : i \in DOMAIN args} \cup {rest[i] : i \in DOMAIN rest} |->
        IF \E i \in DOMAIN args : args[i] = l
        THEN (CHOOSE i \in DOMAIN args :
                 args[i] = l /\ \A j \in DOMAIN args : args[j] = l => j <= i) - 1
        ELSE Len(args) + (CHOOSE i \in DOMAIN rest : rest[i] = l) - 1]

(* mod.rs:237-241: the compact locals declaration.                         *)
RECURSIVE declaration(_, _)
declaration(keys, map) ==
    IF keys = <<>> THEN <<>>
    ELSE leb128(Len(map[Head(keys)])) \o <<ValTypeByte(Head(keys))>>
           \o declaration(Tail(keys), map)

emit_with(keys, map) ==
    [encoder |-> leb128(Len(keys)) \o declaration(keys, map),
     used_set |-> used_locals,
     local_map |-> local_map(grouped(keys, map))]

(* Faulty variant: the used locals are not sorted.                        *)
emit_locals_Unsorted(order) ==
    LET emit(map) == emit_with(btree_keys(map), map)
    IN emit(ty_to_locals(order))

(* Faulty variant: the type groups are kept in insertion order.           *)
emit_locals_InsertionOrder(order) ==
    LET emit(used, map) ==
            LET is_key(ty) == ty \in DOMAIN map
            IN emit_with(SelectSeq(first_seen(used, <<>>), is_key), map)
        sorted(used) == emit(used, ty_to_locals(used))
    IN sorted(sort_unstable(order))

(* emit_locals when the hash set of used locals hands them out in `order`. *)
emit_locals(order) ==
    LET emit(map) == emit_with(btree_keys(map), map)
    IN emit(ty_to_locals(sort_unstable(order)))

(* emit_locals is run on the function parse returned.                      *)
EmitLocals ==
    /\ status = "ok"
    /\ \E order \in Orders(used_locals) : emitted' = <<emit_locals(order)>>
    /\ UNCHANGED <<body, result, indices, args, operands, controls, if_else,
                   arena, entry, frames, status, err, err_offset, other>>

----------------------------------------------------------------------------
(* parse and emit_locals on bodies of local.get and drop, in functions of  *)
(* type (i32) -> () and (i32, i64) -> () with four locals.                 *)

MaxOpsLocals == 7  \* operators read per body

(* The function's locals by index, with their types by id.                 *)
IndicesLocals ==
    [memories |-> <<>>, data |-> <<>>, locals |-> <<5, 6, 7, 8>>,
     local_tys |-> (5 :> I32) @@ (6 :> I64) @@ (7 :> I32) @@ (8 :> I64)]

ArgsLocals == {<<5>>, <<5, 6>>}
LocalIndices == {0, 1, 2, 3}

InitLocals == \E a \in ArgsLocals : ParseStartIn(<<>>, IndicesLocals, a)

NextLocals ==
    \/ LocalGet(LocalIndices, MaxOpsLocals)
    \/ Drop(MaxOpsLocals)
    \/ End(MaxOpsLocals)
    \/ Eof
    \/ EmitLocals

SpecLocals == InitLocals /\ [][NextLocals]_vars

----------------------------------------------------------------------------
(* select over operands of number and reference types: a function whose    *)
(* locals are an i32, an i64 and a funcref.                                 *)

MaxOpsSelect == 5  \* operators read per body

IndicesSelect ==
    [memories |-> <<>>, data |-> <<>>, locals |-> <<5, 6, 7>>,
     local_tys |-> (5 :> I32) @@ (6 :> I64) @@ (7 :> "funcref")]

InitSelect == ParseStartIn(<<>>, IndicesSelect, <<>>)

NextSelect ==
    \/ LocalGet(LocalIndices, MaxOpsSelect)
    \/ I32Const(ValuesBr, MaxOpsSelect)
    \/ Select(MaxOpsSelect)
    \/ Unreachable(MaxOpsSelect)
    \/ Drop(MaxOpsSelect)
    \/ End(MaxOpsSelect)
    \/ Eof

SpecSelect == InitSelect /\ [][NextSelect]_vars

----------------------------------------------------------------------------
(* Memory accesses over the range of alignment flags.                       *)

MaxOpsAlign == 4  \* operators read per body

(* Memory immediates: the smallest and the largest flags accepted, and the  *)
(* first two that are not.                                                  *)
MemArgsAlign ==
    {[flags |-> 0, offset |-> 0], [flags |-> 2, offset |-> 8],
     [flags |-> 31, offset |-> 0], [flags |-> 32, offset |-> 0],
     [flags |-> 33, offset |-> 0]}

NextAlign ==
    \/ I32Const(ValuesBr, MaxOpsAlign)
    \/ I32Load(MemArgsAlign, MaxOpsAlign)
    \/ AtomicNotify(MemArgsAlign, MaxOpsAlign)
    \/ Unreachable(MaxOpsAlign)
    \/ End(MaxOpsAlign)
    \/ Eof

SpecAlign == InitMem /\ [][NextAlign]_vars

----------------------------------------------------------------------------
(* Notions the properties are stated in.                                   *)

Range(f) == {f[i] : i \in DOMAIN f}

(* The sequences named by the Block, Loop and IfElse instructions of `id`. *)
Nested(id) == UNION {Range(arena[id][k].seqs) : k \in 1..Len(arena[id])}

RECURSIVE Reach(_)
Reach(S) ==
    LET N == S \cup UNION {Nested(id) : id \in S}
    IN IF N = S THEN S ELSE Reach(N)

Allocated == 1..Len(arena)

(* The sequences the if/else side stack holds for the open ifs.            *)
Pending ==
    {if_else[i].consequent : i \in 1..Len(if_else)}
        \cup ({if_else[i].alternative : i \in 1..Len(if_else)} \ {NoSeq})

Structural == {"Block", "Loop", "If", "Else", "End"}
StructuralOrNop == Structural \cup {"Nop"}
Openers == {"Block", "Loop", "If"}
CountOps(b, names) == Cardinality({i \in 1..Len(b) : b[i].op \in names})
CountOpsNot(b, names) == Cardinality({i \in 1..Len(b) : b[i].op \notin names})

----------------------------------------------------------------------------
(* C1: whenever an operator is read and handed to validate_instruction,    *)
(* the control stack is non-empty and its bottom frame is FunctionEntry.   *)
(* The code breaks it: after the `end` that pops the FunctionEntry frame   *)
(* the read loop goes on when the body has more operators.                 *)
C1_BottomIsFunctionEntry ==
    [][(status = "run" /\ body' # body)
          => (controls # <<>> /\ controls[1].kind = "FunctionEntry")]_vars

(* C2 as stated: on entry to every operator every allocated sequence is    *)
(* reachable from the entry sequence through the appended Block, Loop and  *)
(* IfElse instructions.                                                    *)
C2_Original == status = "run" => Allocated \subseteq Reach({entry})

(* C2 amended: on entry to every operator every allocated sequence is      *)
(* reachable from the entry sequence or from a sequence held by a pending  *)
(* if/else side-stack entry; when parse returns a function, from the entry *)
(* sequence alone.                                                         *)
C2_ReachableOrPending ==
    /\ status = "run" => Allocated \subseteq Reach({entry} \cup Pending)
    /\ status = "ok" => Allocated \subseteq Reach({entry})

(* A block nested in an open `if`: reachable only through the pending      *)
(* consequent.                                                             *)
C2_Witness ==
    /\ status = "run"
    /\ \E id \in Allocated : id \notin Reach({entry}) /\ id \notin Pending

(* C3 as stated: when parse returns a function both stacks are empty.      *)
C3_Original == status = "ok" => (controls = <<>> /\ operands = <<>>)

(* C3 amended: when parse returns a function the control stack is empty    *)
(* and the operand stack holds exactly the function's result types.        *)
C3_OperandsAreResults == status = "ok" => (controls = <<>> /\ operands = result)

C3_Witness == status = "ok" /\ result # <<>> /\ operands = result

(* C4 as stated: size() of an accepted body is the number of operators     *)
(* other than block/loop/if/else/end plus one per block, loop and if.      *)
C4_Original ==
    status = "ok" =>
        size = CountOpsNot(body, Structural) + CountOps(body, Openers)

(* C4 amended: nop appends no instruction, so it is not counted either.    *)
C4_SizeWithoutNop ==
    status = "ok" =>
        size = CountOpsNot(body, StructuralOrNop)
                 + CountOps(body, Openers)

(* An accepted body with a nested sequence that holds an instruction.      *)
C4_Witness ==
    /\ status = "ok"
    /\ \E id \in Allocated \ {entry} : Len(arena[id]) > 0
    /\ CountOps(body, Openers) > 0

----------------------------------------------------------------------------
(* Scenario: [i32.const 1, if [i32], i32.const 7, end, end].               *)
S3 ==
    << [op |-> "I32Const", value |-> 1], [op |-> "If", ty |-> ValTy(I32)],
       [op |-> "I32Const", value |-> 7], [op |-> "End"], [op |-> "End"] >>

IsPrefix(a, b) == Len(a) <= Len(b) /\ a = SubSeq(b, 1, Len(a))

(* The IfElse instructions of the entry sequence.                          *)
EntryIfElses == {k \in 1..Len(arena[entry]) : arena[entry][k].i = "IfElse"}

(* C5 as stated: in a function of type () -> i32 no operator of the        *)
(* scenario is rejected, and the entry sequence of the accepted function   *)
(* holds one IfElse whose alternative is empty and whose consequent ends   *)
(* with the constant 7.                                                    *)
C5_Original ==
    /\ IsPrefix(body, S3) => err \in {NoErr, "UnexpectedEof"}
    /\ (body = S3 /\ status = "ok") =>
           /\ Cardinality(EntryIfElses) = 1
           /\ \A k \in EntryIfElses :
                  /\ arena[arena[entry][k].seqs[2]] = <<>>
                  /\ arena[arena[entry][k].seqs[1]] # <<>>
                  /\ Last(arena[arena[entry][k].seqs[1]]).i = "Const"
                  /\ Last(arena[arena[entry][k].seqs[1]]).value = 7

(* An `end` is read while the innermost frame is an If frame: the `if` has *)
(* no `else`.                                                              *)
EndOfIfWithoutElse ==
    /\ status = "run"
    /\ Len(controls) >= 2
    /\ Last(controls).kind = "If"
    /\ body' = Append(body, [op |-> "End"])

(* C5 amended: an `if` with no params and one result closed by `end` with  *)
(* no `else` is rejected at that `end` (the empty alternative has to        *)
(* produce the result as well); an `if` with the empty block type whose     *)
(* consequent leaves the stack at the frame's height is accepted, and its   *)
(* `end` appends to the enclosing sequence one IfElse whose consequent is   *)
(* the if's sequence and whose alternative is an empty sequence.            *)
C5_IfWithoutElse ==
    [][EndOfIfWithoutElse =>
          LET frame == Last(controls)
              parent == controls[Len(controls) - 1].block
          IN IF frame.end_types # <<>>
             THEN status' = "err"
             ELSE Len(operands) = frame.height =>
                     /\ status' = "run"
                     /\ Len(arena'[parent]) = Len(arena[parent]) + 1
                     /\ Last(arena'[parent]).i = "IfElse"
                     /\ Last(arena'[parent]).seqs[1] = frame.block
                     /\ arena'[Last(arena'[parent]).seqs[2]] = <<>>]_vars

(* The scenario, rejected at the `end` that closes its `if`.               *)
C5_Witness ==
    /\ body = SubSeq(S3, 1, 4)
    /\ status = "err"
    /\ err = "StackUnderflow"

----------------------------------------------------------------------------
(* The branch instructions of the arena, as (sequence, position) pairs.    *)
Branches ==
    {<<id, k>> \in Allocated \X (1..MaxOpsBr) :
        k <= Len(arena[id]) /\ arena[id][k].i \in {"Br", "BrIf", "BrTable"}}

(* C6: in every accepted function the types popped for a br, br_if or      *)
(* br_table equal the label types of every frame the operator targets.     *)
(* The code breaks it: br_table does not compare the label types of a      *)
(* target frame that is marked unreachable (mod.rs:772-774).               *)
C6_BranchTypes ==
    status = "ok" =>
        \A b \in Branches :
            LET br == arena[b[1]][b[2]]
            IN \A j \in 1..Len(br.tgts) :
                   br.tys = label_types(frames[br.tgts[j]])

----------------------------------------------------------------------------
(* Typing of the next operator against the stacks, stated without the      *)
(* handlers: the operand types an operator demands, where an operand the   *)
(* innermost frame does not hold may be fabricated if that frame is        *)
(* marked unreachable.                                                     *)

Top == Last(controls)

(* The k-th operand from the top; None when the innermost frame does not   *)
(* hold it.                                                                *)
Opnd(k) ==
    IF Len(operands) - k + 1 > Top.height
    THEN operands[Len(operands) - k + 1] ELSE None

(* The stack ends with `types` (the last on top).                          *)
Has(types) ==
    \A i \in 1..Len(types) :
        LET pos == Len(operands) - Len(types) + i
        IN IF pos > Top.height
           THEN types[i] = None \/ operands[pos] \in {types[i], None}
           ELSE Top.unreachable

(* The innermost frame holds `types` and nothing below them.               *)
HasExactly(types) ==
    Has(types) /\ Len(operands) - Top.height <= Len(types)

Demands(inst) ==
    /\ controls # <<>>
    /\ CASE inst.op \in {"Nop", "I32Const", "I64Const", "Unreachable"} -> TRUE
         [] inst.op = "I32Add" -> Has(<<I32, I32>>)
         [] inst.op = "Drop" -> Has(<<None>>)
         [] inst.op = "Select" ->
                /\ Has(<<None, None, I32>>)
                /\ Opnd(2) = None \/ Opnd(3) = None \/ Opnd(2) = Opnd(3)
         [] inst.op = "Return" -> Has(result)
         [] inst.op \in {"Block", "Loop"} ->
                type_ok(inst.ty) /\ Has(block_param_tys(inst.ty))
         [] inst.op = "If" ->
                type_ok(inst.ty) /\ Has(block_param_tys(inst.ty) \o <<I32>>)
         [] inst.op = "Else" -> Top.kind = "If" /\ HasExactly(Top.end_types)
         [] inst.op = "End" -> HasExactly(Top.end_types)
         [] inst.op = "Br" ->
                /\ control_ok([controls |-> controls], inst.relative_depth)
                /\ Has(label_types(
                           control([controls |-> controls], inst.relative_depth)))
         [] inst.op = "BrIf" ->
                /\ control_ok([controls |-> controls], inst.relative_depth)
                /\ Has(label_types(
                           control([controls |-> controls], inst.relative_depth))
                       \o <<I32>>)
         [] inst.op = "BrTable" ->
                /\ control_ok([controls |-> controls], inst.default)
                /\ \A i \in 1..Len(inst.labels) :
                       /\ control_ok([controls |-> controls], inst.labels[i])
                       /\ label_types(
                              control([controls |-> controls], inst.labels[i]))
                            = label_types(
                                control([controls |-> controls], inst.default))
                /\ Has(label_types(
                           control([controls |-> controls], inst.default))
                       \o <<I32>>)

(* The empty alternative of an `if` closed without `else` has to turn the  *)
(* params into the results.                                                *)
EmptyElseTyped(inst) ==
    (inst.op = "End" /\ Top.kind = "If") => Top.start_types = Top.end_types

Terminators == {"Unreachable", "Return", "Br", "BrTable"}

(* An operator is read while some open frame is marked unreachable.        *)
ReadInDeadCode ==
    /\ status = "run"
    /\ body' # body
    /\ \E i \in 1..Len(controls) : controls[i].unreachable

(* An accepted terminator leaves the innermost frame marked unreachable    *)
(* and the operand stack at that frame's height.                           *)
TerminatorMarks ==
    (status = "run" /\ body' # body /\ status' = "run"
       /\ Last(body').op \in Terminators)
    => /\ Last(controls').unreachable
       /\ Len(operands') = Last(controls').height

(* C7: after an accepted terminator every operator whose operand demands  *)
(* hold under polymorphic operands is accepted, the matching `end` of the  *)
(* frame included.  An `if` closed without `else` is taken as well-typed   *)
(* only if its result types equal its param types.  The code breaks it:    *)
(* in a frame opened after the function's final `end` the matching `end`   *)
(* finds no enclosing sequence for its IfElse instruction.                 *)
C7_PolymorphicAccepted ==
    [][/\ TerminatorMarks
       /\ ReadInDeadCode =>
              ((Demands(Last(body')) /\ EmptyElseTyped(Last(body')))
                  => status' = "run")]_vars

----------------------------------------------------------------------------
(* The open frames of kind If or Else, outermost first.                    *)
OpenIfs ==
    LET IsIf(frame) == frame.kind \in {"If", "Else"}
    IN SelectSeq(controls, IsIf)

(* C8: on entry to every operator the if/else side stack has one entry per *)
(* open If or Else frame, in the nesting order: the entry of an If frame   *)
(* holds the frame's sequence as consequent and no alternative, the entry  *)
(* of an Else frame holds the frame's sequence as alternative; End and     *)
(* Else never find the side stack empty.                                   *)
C8_SideStack ==
    /\ err # "PanicIfElse"
    /\ status = "run" =>
           /\ Len(if_else) = Len(OpenIfs)
           /\ \A i \in 1..Len(if_else) :
                  IF OpenIfs[i].kind = "If"
                  THEN /\ if_else[i].consequent = OpenIfs[i].block
                       /\ if_else[i].alternative = NoSeq
                  ELSE if_else[i].alternative = OpenIfs[i].block

(* [.., else, end]: the `end` of an Else frame has taken the entry.        *)
C8_Witness ==
    /\ status = "run"
    /\ Len(body) >= 2
    /\ body[Len(body) - 1].op = "Else"
    /\ Last(body).op = "End"
    /\ if_else = <<>>
    /\ Last(arena[entry]).i = "IfElse"

(* C9: on entry to every operator the operand stack is at least as deep as *)
(* the height of every frame on the control stack.                         *)
C9_DepthAtLeastHeight ==
    status = "run" =>
        \A i \in 1..Len(controls) : Len(operands) >= controls[i].height

(* A `drop` in unreachable code, at the height of a frame that is not the  *)
(* bottom of the operand stack.                                            *)
C9_Witness ==
    /\ status = "run"
    /\ body # <<>>
    /\ Last(body).op = "Drop"
    /\ controls # <<>>
    /\ Top.height > 0
    /\ Len(operands) = Top.height

(* The operand-stack positions above the height of frame i.                *)
Above(i) == (controls[i].height + 1)..Len(operands)

(* The operand-stack positions frame i holds: above its height, up to the  *)
(* height of the next frame.                                               *)
Held(i) ==
    (controls[i].height + 1)..
        (IF i < Len(controls) THEN controls[i + 1].height ELSE Len(operands))

(* C10 as stated: on entry to every operator, every operand above the      *)
(* height of a frame that is not marked unreachable is a concrete type.    *)
C10_Original ==
    status = "run" =>
        \A i \in 1..Len(controls) :
            ~controls[i].unreachable =>
                \A k \in Above(i) : operands[k] # None

(* C10 amended: on entry to every operator, every operand held by a frame  *)
(* that is not marked unreachable (above its height, up to the height of   *)
(* the next frame) is a concrete type.                                     *)
C10_HeldAreConcrete ==
    status = "run" =>
        \A i \in 1..Len(controls) :
            ~controls[i].unreachable =>
                \A k \in Held(i) : operands[k] # None

(* A frame that is not marked unreachable, opened above a polymorphic      *)
(* operand.                                                                *)
C10_Witness ==
    /\ status = "run"
    /\ controls # <<>>
    /\ ~Top.unreachable
    /\ \E k \in 1..Len(operands) : operands[k] = None

----------------------------------------------------------------------------
(* The reader is found at eof: the step of parse that reads no operator.   *)
AtEof == status = "run" /\ body' = body /\ err' # "Malformed"

(* C11: when the operator source is exhausted while a control frame is     *)
(* still open, parse fails with UnexpectedEof and returns no function.     *)
C11_EofWithOpenFrame ==
    [][(AtEof /\ controls # <<>>)
          => (status' = "err" /\ err' = "UnexpectedEof")]_vars

(* A body that opened a block and ended before its `end`.                  *)
C11_Witness ==
    /\ status = "err"
    /\ err = "UnexpectedEof"
    /\ Len(controls) >= 2
    /\ body # <<>>

----------------------------------------------------------------------------
(* An `else` is read while the innermost frame is not an If frame.         *)
ElseOutsideIf ==
    /\ status = "run"
    /\ controls # <<>>
    /\ Top.kind # "If"
    /\ body' = Append(body, [op |-> "Else"])

(* C12 as stated: an `else` whose innermost frame is not an If frame is    *)
(* rejected with StrayElse, whatever the operand stack holds.              *)
C12_Original ==
    [][ElseOutsideIf => (status' = "err" /\ err' = "StrayElse")]_vars

(* C12 amended: such an `else` is always rejected; with StrayElse when the *)
(* innermost frame holds exactly its end types, and otherwise with the     *)
(* error of closing the frame, which comes before the look at its kind.    *)
C12_StrayElse ==
    [][ElseOutsideIf =>
          /\ status' = "err"
          /\ IF HasExactly(Top.end_types)
             THEN err' = "StrayElse"
             ELSE err' \in {"StackUnderflow", "TypeMismatch",
                            "StackHeightMismatch"}]_vars

(* [else] at the top level of a function without results.                  *)
C12_Witness ==
    /\ body = <<[op |-> "Else"]>>
    /\ result = <<>>
    /\ status = "err"
    /\ err = "StrayElse"

----------------------------------------------------------------------------
(* A br_table is read whose default label names an open frame.             *)
BrTableRead ==
    /\ status = "run"
    /\ body' # body
    /\ Last(body').op = "BrTable"
    /\ Last(body').default < Len(controls)

(* Label n names an open frame.                                            *)
Known(n) == n < Len(controls)

(* The label types of label n differ from those of label d: in arity, or,  *)
(* when the frame of n is not marked unreachable, in an element.           *)
Differs(n, d) ==
    LET frame == controls[Len(controls) - n]
        lt == label_types(frame)
        dt == label_types(controls[Len(controls) - d])
    IN \/ Len(lt) # Len(dt)
       \/ ~frame.unreachable /\ lt # dt

(* The br_table is rejected with TypeMismatch, and nothing was popped or   *)
(* appended.                                                               *)
RejectedUnpopped ==
    /\ status' = "err"
    /\ err' = "TypeMismatch"
    /\ operands' = operands
    /\ controls' = controls
    /\ arena' = arena

(* C13 as stated: a br_table is rejected with TypeMismatch, before any     *)
(* operand is popped, whenever the label types of some label differ from   *)
(* those of the default label.                                             *)
C13_Original ==
    [][BrTableRead =>
          LET inst == Last(body')
          IN (\E i \in 1..Len(inst.labels) :
                  /\ Known(inst.labels[i])
                  /\ Differs(inst.labels[i], inst.default))
                 => RejectedUnpopped]_vars

(* C13 amended: so it is when every label before the differing one names   *)
(* an open frame; a label before it that names none is reported first.     *)
C13_NonUniformLabels ==
    [][BrTableRead =>
          LET inst == Last(body')
          IN (\E i \in 1..Len(inst.labels) :
                  /\ \A j \in 1..i : Known(inst.labels[j])
                  /\ Differs(inst.labels[i], inst.default))
                 => RejectedUnpopped]_vars

(* The scenario: br_table [1,0] 0 in a block [i64] in a block [i32], with  *)
(* both constants still on the stack.                                      *)
C13_Witness ==
    /\ body = << [op |-> "Block", ty |-> ValTy(I32)],
                 [op |-> "Block", ty |-> ValTy(I64)],
                 [op |-> "I32Const", value |-> 0],
                 [op |-> "I32Const", value |-> 0],
                 [op |-> "BrTable", labels |-> <<1, 0>>, default |-> 0] >>
    /\ status = "err"
    /\ err = "TypeMismatch"
    /\ operands = <<I32, I32>>

----------------------------------------------------------------------------
(* An operator is read and its validation fails.                           *)
OperatorFails == status = "run" /\ body' # body /\ status' # "run"

(* C14: an operator whose validation fails has appended no instruction to  *)
(* any sequence: every sequence is as it was before the operator was read. *)
C14_NoNodeOnFailure ==
    [][OperatorFails => \A id \in DOMAIN arena : arena'[id] = arena[id]]_vars

(* atomic.notify with alignment flags out of range, after its operands     *)
(* were popped in a module with a memory; the constants stay appended.     *)
C14_Witness ==
    /\ status = "err"
    /\ err = "InvalidAlignment"
    /\ Last(body).op = "AtomicNotify"
    /\ Len(arena[entry]) = 2
    /\ operands = <<>>

----------------------------------------------------------------------------
(* C15: the first operator that fails, in validation or in decoding, ends  *)
(* the parse: every step of parse is taken while no operator has failed,   *)
(* a step in which an operator fails with an error makes parse return that *)
(* error, and a function is returned only when no operator has failed.     *)
C15_FirstFailureEnds ==
    [][/\ status = "run"
       /\ err = NoErr
       /\ err' \notin {NoErr, "Panic", "PanicIfElse"} => status' = "err"
       /\ status' = "ok" => err' = NoErr]_vars

(* An operator fails after others were appended and before the bound on    *)
(* the body is reached: the reader holds more, and the arena is not empty. *)
C15_Witness ==
    /\ status = "err"
    /\ err \notin {"UnexpectedEof", "Malformed"}
    /\ Len(body) < MaxOpsMem
    /\ arena[entry] # <<>>

----------------------------------------------------------------------------
(* C16: every error parse returns carries the byte offset of the operator  *)
(* that caused it.  The code breaks it: the errors of validate_instruction *)
(* and the error at eof are made of a message and returned as they are;    *)
(* only the reader's own error names an offset.                            *)
C16_ErrorCarriesOffset ==
    status = "err" =>
        /\ err_offset # NoOffset
        /\ err \notin {"UnexpectedEof", "Malformed"}
               => err_offset = Len(body) - 1

----------------------------------------------------------------------------
(* The data segments the memory.init and data.drop operators of the body   *)
(* name, as the ids the module's index space gives them.                   *)
NamedDataSegments ==
    {indices.data[body[i].segment + 1] :
        i \in {j \in 1..Len(body) : body[j].op \in {"MemoryInit", "DataDrop"}}}

(* C17: for an accepted function used_data_segments returns exactly the    *)
(* data ids named by the memory.init and data.drop operators of the body,  *)
(* in whatever sequence their instructions are.                            *)
C17_UsedDataSegments ==
    status = "ok" => used_data_segments = NamedDataSegments

(* An accepted body that names one segment in a nested block and another   *)
(* one in the entry sequence.                                              *)
C17_Witness ==
    /\ status = "ok"
    /\ DataIdsOf(entry) # {}
    /\ \E id \in Allocated \ {entry} :
           DataIdsOf(id) # {} /\ DataIdsOf(id) # DataIdsOf(entry)

----------------------------------------------------------------------------
(* C18: emit_locals is deterministic: a run on a function on which it was  *)
(* run before produces the declaration and the index map of that run,      *)
(* whatever the order in which the hash set hands out the used locals.     *)
C18_EmitLocalsDeterministic ==
    [][(status = "ok" /\ emitted # <<>>) => emitted' = emitted]_vars

(* emit_locals has run on a function that uses two locals of one type that *)
(* are no arguments.                                                       *)
C18_Witness ==
    /\ emitted # <<>>
    /\ \E a, b \in used_locals :
           /\ a # b
           /\ local_ty(a) = local_ty(b)
           /\ \A i \in DOMAIN args : args[i] \notin {a, b}

----------------------------------------------------------------------------
(* The locals the local.get operators of the body name that are no         *)
(* arguments, and the types they have.                                     *)
UsedBodyLocals ==
    {indices.locals[body[i].local_index + 1] :
        i \in {j \in 1..Len(body) : body[j].op = "LocalGet"}}
      \ {args[i] : i \in DOMAIN args}

UsedBodyTypes == {local_ty(l) : l \in UsedBodyLocals}

(* The place of a value type in the order of the type keys.                *)
KeyOf(ty) == CHOOSE k \in DOMAIN ValTypeOrd : ValTypeOrd[k] = ty

(* Local k comes before local l: its type has the smaller key, or the      *)
(* types are equal and its id is the smaller one.                          *)
Before(k, l) ==
    \/ KeyOf(local_ty(k)) < KeyOf(local_ty(l))
    \/ local_ty(k) = local_ty(l) /\ k < l

(* C19: emit_locals gives the i-th argument the index i (0-based), used or *)
(* not, and the used locals that are no arguments the consecutive indices  *)
(* from args.len(), by ascending type key and ascending id within a type;  *)
(* the map is injective onto 0..n-1; the declaration is the number of type *)
(* groups and then one (count, type) pair per group in that order, whose   *)
(* counts sum to the number of used locals that are no arguments.          *)
C19_LocalsLayout ==
    (status = "ok" /\ emitted # <<>>) =>
        LET m == emitted[1].local_map
            decl == emitted[1].encoder
            n == Len(args) + Cardinality(UsedBodyLocals)
        IN /\ DOMAIN m = {args[i] : i \in DOMAIN args} \cup UsedBodyLocals
           /\ \A i \in DOMAIN args : m[args[i]] = i - 1
           /\ \A l \in UsedBodyLocals :
                  m[l] = Len(args)
                           + Cardinality({k \in UsedBodyLocals : Before(k, l)})
           /\ \A k, l \in DOMAIN m : m[k] = m[l] => k = l
           /\ {m[l] : l \in DOMAIN m} = 0..(n - 1)
           /\ Len(decl) = 1 + 2 * Cardinality(UsedBodyTypes)
           /\ decl[1] = Cardinality(UsedBodyTypes)
           /\ \A ty \in UsedBodyTypes :
                  LET g == Cardinality({t \in UsedBodyTypes :
                                           KeyOf(t) <= KeyOf(ty)})
                  IN /\ decl[2 * g] =
                            Cardinality({l \in UsedBodyLocals :
                                            local_ty(l) = ty})
                     /\ decl[2 * g + 1] = ValTypeByte(ty)

(* emit_locals has run on a function with one argument that uses its three *)
(* other locals, of two types.                                             *)
C19_Witness ==
    /\ emitted # <<>>
    /\ Len(args) = 1
    /\ Cardinality(UsedBodyLocals) = 3
    /\ Cardinality(UsedBodyTypes) = 2
    /\ emitted[1].encoder = <<2, 1, 127, 2, 126>>

----------------------------------------------------------------------------
(* The places that name sequence `id` as a nested sequence: sequence,      *)
(* position of the instruction, and position among the instruction's       *)
(* nested sequences (Block.seq, Loop.seq, IfElse.consequent, .alternative). *)
References(id) ==
    UNION {UNION {{<<s, k, j>> : j \in {i \in DOMAIN arena[s][k].seqs :
                                           arena[s][k].seqs[i] = id}} :
                  k \in DOMAIN arena[s]} :
           s \in Allocated}

(* C20: in every accepted function the sequences form a tree: each         *)
(* allocated sequence but the entry is named by exactly one Block, Loop or *)
(* IfElse instruction, the entry by none.                                  *)
C20_SequencesFormTree ==
    status = "ok" =>
        \A id \in Allocated :
            Cardinality(References(id)) = IF id = entry THEN 0 ELSE 1

(* An accepted function with an IfElse: the entry and two more sequences.  *)
C20_Witness ==
    /\ status = "ok"
    /\ Cardinality(Allocated) >= 3
    /\ \E id \in Allocated : \E k \in DOMAIN arena[id] :
           arena[id][k].i = "IfElse"

----------------------------------------------------------------------------
(* C21: for every finite operator sequence parse terminates, with a        *)
(* function or with an error, and reads each operator at most once: every  *)
(* step of the loop moves the reader by one operator.  The code breaks it: *)
(* an operator that follows the `end` of the function body can make a      *)
(* helper of the context panic, and parse then returns neither.            *)
C21_Terminates ==
    /\ [][status = "run" /\ Len(body') <= Len(body) + 1]_vars
    /\ <>(status \in {"ok", "err"})

----------------------------------------------------------------------------
(* A call of parse that has read `b` and is in state `st` with error `e`   *)
(* and the stacks and arena of `p` is where the call run alone on `b` is.  *)
AsAlone(b, p, st, e) ==
    LET same(c) ==
            /\ p.operands = c.operands
            /\ p.controls = c.controls
            /\ p.if_else = c.if_else
            /\ p.arena = c.arena
            /\ p.frames = c.frames
            /\ st = "run" => c.err = NoErr
            /\ st = "ok" => (c.err = NoErr /\ c.controls = <<>>)
            /\ st = "panic" => (c.err = e /\ e \in {"Panic", "PanicIfElse"})
            /\ st = "err" =>
                   e = IF c.err # NoErr THEN c.err ELSE "UnexpectedEof"
            /\ (st = "err" /\ e = "UnexpectedEof") => c.controls # <<>>
    IN same(parse_alone(b))

(* C22: two calls of parse on different bodies against the same module,    *)
(* their steps interleaved in any way, each are where the call run alone   *)
(* on its body is: same stacks, same arena, same function or error.        *)
C22_Interleaved ==
    /\ AsAlone(body,
               [operands |-> operands, controls |-> controls,
                if_else |-> if_else, arena |-> arena, frames |-> frames],
               status, err)
    /\ other # <<>> =>
           AsAlone(other[1].body, other[1], other[1].status, other[1].err)

(* Both calls have read operators, different ones, and both are done: one  *)
(* returned a function, the other an error.                                *)
C22_Witness ==
    /\ other # <<>>
    /\ status = "ok"
    /\ other[1].status = "err"
    /\ Len(body) >= 2
    /\ Len(other[1].body) >= 2
    /\ body # other[1].body

----------------------------------------------------------------------------
(* C23 as stated: when `block ty` or `loop ty` with param types P is        *)
(* accepted, the new frame's height is the operand depth before the        *)
(* operator minus |P|, the stack above it is exactly P and its depth is    *)
(* unchanged, the frame is not marked unreachable, and the node with the   *)
(* new sequence is appended to the sequence of the frame below.            *)
C23_Original ==
    [][(status = "run" /\ body' # body /\ status' = "run"
          /\ Last(body').op \in {"Block", "Loop"})
       => LET P == block_param_tys(Last(body').ty)
              new == Last(controls')
          IN /\ new.height = Len(operands) - Len(P)
             /\ Len(operands') = Len(operands)
             /\ SubSeq(operands', new.height + 1, Len(operands')) = P]_vars

(* C23 amended: the height is the depth before minus the number of params *)
(* the enclosing frame held (all |P| of them unless that frame is marked   *)
(* unreachable, where the missing ones are fabricated), the stack below    *)
(* the height is unchanged and above it is exactly P; the frame is not     *)
(* marked unreachable, its sequence is new and empty, and one node of the  *)
(* operator's kind naming it is appended to the sequence of the frame      *)
(* below, the other sequences unchanged.                                   *)
C23_BlockLoopFrame ==
    [][(status = "run" /\ body' # body /\ status' = "run"
          /\ Last(body').op \in {"Block", "Loop"})
       => LET P == block_param_tys(Last(body').ty)
              new == Last(controls')
              held == Len(operands) - Top.height
              popped == IF held < Len(P) THEN held ELSE Len(P)
              parent == Top.block
          IN /\ controls' = Append(controls, new)
             /\ popped < Len(P) => Top.unreachable
             /\ new.height = Len(operands) - popped
             /\ SubSeq(operands', 1, new.height)
                  = SubSeq(operands, 1, new.height)
             /\ SubSeq(operands', new.height + 1, Len(operands')) = P
             /\ ~new.unreachable
             /\ new.kind = Last(body').op
             /\ new.block \notin DOMAIN arena
             /\ arena'[new.block] = <<>>
             /\ Len(arena'[parent]) = Len(arena[parent]) + 1
             /\ Last(arena'[parent]).i = Last(body').op
             /\ Last(arena'[parent]).seqs = <<new.block>>
             /\ \A id \in DOMAIN arena \ {parent} : arena'[id] = arena[id]]_vars

(* A loop of type (i32) -> (i32) opened on a constant, below which another *)
(* operand lies.                                                           *)
C23_Witness ==
    /\ status = "run"
    /\ Len(body) = 3
    /\ Last(body) = [op |-> "Loop", ty |-> FuncTy(1)]
    /\ Last(controls).height = 1
    /\ operands = <<I64, I32>>

----------------------------------------------------------------------------
(* C24: an accepted `if` appends no instruction: every sequence is as it   *)
(* was, the new one is empty, and the side stack records it as the         *)
(* consequent.  The accepted `end` of its If or Else frame appends exactly *)
(* one IfElse, with the recorded consequent and the alternative, to the    *)
(* sequence of the frame below the closed one, which is on top afterwards. *)
C24_IfElseAtEnd ==
    [][/\ (status = "run" /\ body' # body /\ status' = "run"
             /\ Last(body').op = "If")
          => /\ \A id \in DOMAIN arena : arena'[id] = arena[id]
             /\ DOMAIN arena' = DOMAIN arena \cup {Last(controls').block}
             /\ arena'[Last(controls').block] = <<>>
             /\ Last(if_else').consequent = Last(controls').block
       /\ (status = "run" /\ body' # body /\ status' = "run"
             /\ Last(body').op = "End" /\ controls # <<>>
             /\ Top.kind \in {"If", "Else"})
          => /\ Len(controls) >= 2
             /\ controls' = Front(controls)
             /\ LET encl == Last(controls').block
                    node == Last(arena'[encl])
                IN /\ Len(arena'[encl]) = Len(arena[encl]) + 1
                   /\ node.i = "IfElse"
                   /\ node.seqs[1] = Last(if_else).consequent
                   /\ frames[node.seqs[1]].kind = "If"
                   /\ frames[node.seqs[1]].height = Top.height
                   /\ IF Top.kind = "Else"
                      THEN /\ node.seqs[2] = Top.block
                           /\ node.seqs[2] = Last(if_else).alternative
                      ELSE /\ node.seqs[1] = Top.block
                           /\ node.seqs[2] \notin DOMAIN arena
                   /\ \A id \in DOMAIN arena \ {encl} :
                          arena'[id] = arena[id]]_vars

(* [.., if, unreachable, end]: the IfElse is the last instruction of the   *)
(* entry sequence and its consequent holds the `unreachable`.              *)
C24_Witness ==
    /\ status = "run"
    /\ Len(body) >= 3
    /\ Last(body).op = "End"
    /\ body[Len(body) - 1].op = "Unreachable"
    /\ body[Len(body) - 2].op = "If"
    /\ arena[entry] # <<>>
    /\ Last(arena[entry]).i = "IfElse"
    /\ Len(arena[Last(arena[entry]).seqs[1]]) = 1

----------------------------------------------------------------------------
(* C25: when an accepted `end` closes an If frame (an `if` without `else`) *)
(* the alternative of the IfElse it appends is a sequence allocated by     *)
(* that `end`, the only one it allocates, other than the consequent and    *)
(* empty; the Else frame it was allocated for is not on the control stack  *)
(* afterwards, which is the stack before without the If frame.             *)
C25_EmptyAlternative ==
    [][(status = "run" /\ body' # body /\ status' = "run"
          /\ Last(body').op = "End" /\ controls # <<>> /\ Top.kind = "If")
       => /\ controls' = Front(controls)
          /\ if_else' = Front(if_else)
          /\ controls' # <<>>
          /\ LET node == Last(arena'[Last(controls').block])
                 alt == node.seqs[2]
             IN /\ node.i = "IfElse"
                /\ alt \notin DOMAIN arena
                /\ DOMAIN arena' = DOMAIN arena \cup {alt}
                /\ alt # node.seqs[1]
                /\ arena'[alt] = <<>>
                /\ frames'[alt].kind = "Else"
                /\ frames'[alt].start_types = Top.start_types
                /\ frames'[alt].end_types = Top.end_types]_vars

(* [i32.const, if, end] in a function without results.                     *)
C25_Witness ==
    /\ status = "run"
    /\ Len(body) = 3
    /\ body[2].op = "If"
    /\ body[3].op = "End"
    /\ Len(controls) = 1
    /\ Len(arena) = 3
    /\ arena[3] = <<>>
    /\ Last(arena[entry]).seqs = <<2, 3>>

----------------------------------------------------------------------------
(* C26 as stated: `else` is accepted only on an If frame whose consequent  *)
(* left exactly the result types above the frame's height; the Else frame  *)
(* takes the If frame's start_types, end_types and height; and right after *)
(* `if` and right after `else` the stack above the frame's height is       *)
(* exactly the param types, the entries below the height unchanged.        *)
C26_Original ==
    [][/\ (status = "run" /\ body' # body /\ status' = "run"
             /\ Last(body').op = "Else")
          => /\ controls # <<>>
             /\ Top.kind = "If"
             /\ SubSeq(operands, Top.height + 1, Len(operands))
                  = Top.end_types
             /\ LET new == Last(controls')
                IN /\ controls' = Append(Front(controls), new)
                   /\ new.kind = "Else"
                   /\ new.start_types = Top.start_types
                   /\ new.end_types = Top.end_types
                   /\ new.height = Top.height
                   /\ SubSeq(operands', new.height + 1, Len(operands'))
                        = new.start_types
                   /\ SubSeq(operands', 1, new.height)
                        = SubSeq(operands, 1, new.height)
       /\ (status = "run" /\ body' # body /\ status' = "run"
             /\ Last(body').op = "If")
          => LET new == Last(controls')
             IN /\ controls' = Append(controls, new)
                /\ new.kind = "If"
                /\ new.start_types = block_param_tys(Last(body').ty)
                /\ new.end_types = block_result_tys(Last(body').ty)
                /\ SubSeq(operands', new.height + 1, Len(operands'))
                     = new.start_types
                /\ SubSeq(operands', 1, new.height)
                     = SubSeq(operands, 1, new.height)]_vars

(* C26 amended: the consequent left exactly the result types when the If   *)
(* frame is not marked unreachable; when it is, the frame may hold fewer   *)
(* entries, each of the expected type or None, and the missing ones are    *)
(* fabricated. The rest as stated.                                         *)
C26_ElseFrame ==
    [][/\ (status = "run" /\ body' # body /\ status' = "run"
             /\ Last(body').op = "Else")
          => /\ controls # <<>>
             /\ Top.kind = "If"
             /\ HasExactly(Top.end_types)
             /\ ~Top.unreachable
                  => SubSeq(operands, Top.height + 1, Len(operands))
                       = Top.end_types
             /\ LET new == Last(controls')
                IN /\ controls' = Append(Front(controls), new)
                   /\ new.kind = "Else"
                   /\ new.start_types = Top.start_types
                   /\ new.end_types = Top.end_types
                   /\ new.height = Top.height
                   /\ ~new.unreachable
                   /\ SubSeq(operands', new.height + 1, Len(operands'))
                        = new.start_types
                   /\ SubSeq(operands', 1, new.height)
                        = SubSeq(operands, 1, new.height)
       /\ (status = "run" /\ body' # body /\ status' = "run"
             /\ Last(body').op = "If")
          => LET new == Last(controls')
             IN /\ controls' = Append(controls, new)
                /\ new.kind = "If"
                /\ new.start_types = block_param_tys(Last(body').ty)
                /\ new.end_types = block_result_tys(Last(body').ty)
                /\ new.height <= Len(operands)
                /\ SubSeq(operands', new.height + 1, Len(operands'))
                     = new.start_types
                /\ SubSeq(operands', 1, new.height)
                     = SubSeq(operands, 1, new.height)]_vars

(* [i32.const, if () -> (i32), unreachable, else]: the consequent leaves   *)
(* nothing above the height and `else` is accepted.                        *)
C26_Witness ==
    /\ status = "run"
    /\ Len(body) = 4
    /\ body[2].op = "If"
    /\ body[3].op = "Unreachable"
    /\ body[4].op = "Else"
    /\ Top.kind = "Else"
    /\ Top.end_types = <<I32>>
    /\ if_else # <<>>
    /\ Last(if_else).alternative = Top.block

----------------------------------------------------------------------------
(* C27 as stated: an `else` read while the innermost frame is an Else      *)
(* frame is rejected by the look at the side-stack entry, which already    *)
(* has an alternative.                                                     *)
C27_Original ==
    [][(status = "run" /\ body' # body /\ Last(body').op = "Else"
          /\ controls # <<>> /\ Top.kind = "Else")
       => (status' = "err" /\ err' = "DuplicateElse")]_vars

(* C27 amended: such an `else` is always rejected, and before the          *)
(* side-stack entry is looked at: by closing the Else frame when it does   *)
(* not hold exactly its end types, and otherwise by the look at the kind   *)
(* of the closed frame, which is not If. The side-stack entry is left as   *)
(* it was and no frame is pushed.                                          *)
C27_SecondElse ==
    [][(status = "run" /\ body' # body /\ Last(body').op = "Else"
          /\ controls # <<>> /\ Top.kind = "Else")
       => /\ status' = "err"
          /\ err' # "DuplicateElse"
          /\ IF HasExactly(Top.end_types)
             THEN err' = "StrayElse" /\ controls' = Front(controls)
             ELSE /\ err' \in {"StackUnderflow", "TypeMismatch",
                               "StackHeightMismatch"}
                  /\ Len(controls') = Len(controls)
          /\ if_else' = if_else
          /\ Len(arena') = Len(arena)]_vars

(* [i32.const, if, else, else]: the second `else` is rejected by the look  *)
(* at the kind of the frame.                                               *)
C27_Witness ==
    /\ status = "err"
    /\ err = "StrayElse"
    /\ Len(body) = 4
    /\ body[2].op = "If"
    /\ body[3].op = "Else"
    /\ body[4].op = "Else"
    /\ if_else # <<>>
    /\ Last(if_else).alternative # NoSeq

----------------------------------------------------------------------------
----------------------------------------------------------------------------
(* C29: when unreachable, return, br or br_table is accepted, the control  *)
(* stack afterwards is the one before with the unreachable flag of the     *)
(* innermost frame set and nothing else changed, and the operand stack is  *)
(* the one before cut at that frame's height. return is accepted only      *)
(* over the function's result types, br only over the label types of its   *)
(* target and br_table only over an i32 on the label types of its default  *)
(* target (these are the operands popped; in a frame not marked            *)
(* unreachable they are all there), and unreachable whatever the frame     *)
(* holds. The operator's node is appended to the innermost sequence.       *)
C29_TerminatorEffect ==
    [][(status = "run" /\ body' # body /\ status' = "run"
          /\ Last(body').op \in Terminators)
       => /\ controls # <<>>
          /\ controls' = [controls EXCEPT ![Len(controls)].unreachable = TRUE]
          /\ Len(operands) >= Top.height
          /\ operands' = SubSeq(operands, 1, Top.height)
          /\ LET inst == Last(body')
                 popped ==
                     CASE inst.op = "Unreachable" -> <<>>
                       [] inst.op = "Return" -> result
                       [] inst.op = "Br" ->
                            label_types(
                                controls[Len(controls) - inst.relative_depth])
                       [] inst.op = "BrTable" ->
                            Append(label_types(
                                       controls[Len(controls) - inst.default]),
                                   I32)
             IN /\ inst.op \in {"Br"} => inst.relative_depth < Len(controls)
                /\ inst.op \in {"BrTable"} => inst.default < Len(controls)
                /\ Has(popped)
                /\ ~Top.unreachable
                     => /\ Len(operands) - Top.height >= Len(popped)
                        /\ SubSeq(operands, Len(operands) - Len(popped) + 1,
                                  Len(operands)) = popped
                /\ arena' = [arena EXCEPT ![Top.block] =
                                Append(@, Last(arena'[Top.block]))]
                /\ Last(arena'[Top.block]).i = inst.op]_vars

(* [i32.const, block, i32.const, return] in a function of result i32: the  *)
(* `return` pops the block's i32 and leaves the function's below.          *)
C29_Witness ==
    /\ status = "run"
    /\ result = <<I32>>
    /\ Len(body) = 4
    /\ body[2].op = "Block"
    /\ body[4].op = "Return"
    /\ Len(controls) = 2
    /\ controls[2].unreachable
    /\ ~controls[1].unreachable
    /\ controls[2].height = 1
    /\ operands = <<I32>>

----------------------------------------------------------------------------
(* C30: when `br_if n` is accepted in a frame not marked unreachable, the  *)
(* operand stack before has an i32 on top of the label types of frame n,   *)
(* the stack afterwards is the one before without that i32, the control    *)
(* stack and the side stack are unchanged, and one BrIf node whose target  *)
(* is the sequence of frame n is appended to the innermost sequence, the   *)
(* other sequences unchanged.                                              *)
C30_BrIfEffect ==
    [][(status = "run" /\ body' # body /\ status' = "run"
          /\ Last(body').op = "BrIf"
          /\ controls # <<>> /\ ~Top.unreachable)
       => LET n == Last(body').relative_depth
          IN /\ n < Len(controls)
             /\ operands # <<>>
             /\ Last(operands) = I32
             /\ operands' = Front(operands)
             /\ LET L == label_types(controls[Len(controls) - n])
                IN /\ Len(operands') - Top.height >= Len(L)
                   /\ SubSeq(operands', Len(operands') - Len(L) + 1,
                             Len(operands')) = L
             /\ controls' = controls
             /\ if_else' = if_else
             /\ arena' = [arena EXCEPT ![Top.block] =
                             Append(@, Last(arena'[Top.block]))]
             /\ Last(arena'[Top.block]).i = "BrIf"
             /\ Last(arena'[Top.block]).tgts
                  = <<controls[Len(controls) - n].block>>]_vars

(* [i32.const, i32.const, br_if 0] in a function of result i32: the        *)
(* condition is popped, the i32 of the label stays.                        *)
C30_Witness ==
    /\ status = "run"
    /\ result = <<I32>>
    /\ Len(body) = 3
    /\ body[3].op = "BrIf"
    /\ body[3].relative_depth = 0
    /\ operands = <<I32>>
    /\ Len(controls) = 1
    /\ ~Top.unreachable
    /\ Len(arena[entry]) = 3
    /\ Last(arena[entry]).i = "BrIf"
    /\ Last(arena[entry]).tgts = <<entry>>

----------------------------------------------------------------------------
----------------------------------------------------------------------------
(* C32: `select` pops an i32, then t1, then t2, an operand the innermost   *)
(* frame does not hold being polymorphic when the frame is marked          *)
(* unreachable. It is rejected when t1 is a concrete type that is no       *)
(* number type, and when t2 is concrete and differs from a concrete t1.    *)
(* When it is accepted the stack is the one before without the operands    *)
(* popped and with one entry pushed: t2, or t1 when t2 is polymorphic,     *)
(* which is polymorphic only if both are and is never a reference type.    *)
C32_Select ==
    [][(status = "run" /\ body' # body /\ Last(body').op = "Select"
          /\ controls # <<>>)
       => LET held == Len(operands) - Top.height
              popped == IF held < 3 THEN held ELSE 3
              t1 == Opnd(2)
              t2 == Opnd(3)
              numbers == {I32, I64, "f32", "f64"}
          IN /\ (held >= 2 /\ t1 \notin numbers \cup {None})
                  => status' = "err"
             /\ (held >= 3 /\ t1 # None /\ t2 # None /\ t2 # t1)
                  => status' = "err"
             /\ status' = "run"
                  => /\ Len(operands') = Len(operands) - popped + 1
                     /\ SubSeq(operands', 1, Len(operands') - 1)
                          = SubSeq(operands, 1, Len(operands) - popped)
                     /\ Last(operands') = IF t2 = None THEN t1 ELSE t2
                     /\ Last(operands') = None <=> (t1 = None /\ t2 = None)
                     /\ Last(operands') \in numbers \cup {None}
                     /\ popped < 3 => Top.unreachable]_vars

(* [unreachable, local.get (i64), i32.const, select]: t2 is polymorphic    *)
(* and the i64 is pushed.                                                  *)
C32_Witness ==
    /\ status = "run"
    /\ Len(body) = 4
    /\ body[1].op = "Unreachable"
    /\ body[2].op = "LocalGet"
    /\ body[4].op = "Select"
    /\ operands = <<I64>>
    /\ Last(arena[entry]).i = "Select"

----------------------------------------------------------------------------
(* C33 as stated: a memory access whose flags are 32 or more is rejected   *)
(* with InvalidAlignment; one that is accepted has flags below 32 and      *)
(* records the alignment 2^flags, which fits 32 bits (the halves of 16     *)
(* bits are hi = 2^(flags-16), lo = 0 from flags 16 on, and hi = 0,        *)
(* lo = 2^flags below).                                                    *)
C33_Original ==
    [][(status = "run" /\ body' # body
          /\ Last(body').op \in {"I32Load", "AtomicNotify"})
       => LET arg == Last(body').memarg
          IN /\ arg.flags >= 32
                  => (status' = "err" /\ err' = "InvalidAlignment")
             /\ status' = "run"
                  => /\ arg.flags < 32
                     /\ LET align == Last(arena'[Top.block]).value.arg.align
                        IN /\ align.hi \in 0..(2 ^ 16 - 1)
                           /\ align.lo \in 0..(2 ^ 16 - 1)
                           /\ IF arg.flags < 16
                              THEN align.hi = 0 /\ align.lo = 2 ^ arg.flags
                              ELSE /\ align.hi = 2 ^ (arg.flags - 16)
                                   /\ align.lo = 0]_vars

(* C33 amended: such an access is always rejected and appends no node, but *)
(* the flags are looked at after the operands are popped and memory 0 is   *)
(* resolved: the error is that of the pop when the operands are not there, *)
(* UnknownIndex when the module has no memory, and InvalidAlignment        *)
(* otherwise. The second part as stated, the offset being recorded as      *)
(* read.                                                                   *)
C33_Alignment ==
    [][(status = "run" /\ body' # body
          /\ Last(body').op \in {"I32Load", "AtomicNotify"})
       => LET arg == Last(body').memarg
              pops == IF Last(body').op = "I32Load"
                      THEN <<I32>> ELSE <<I32, I32>>
          IN /\ arg.flags >= 32
                  => /\ status' # "run"
                     /\ arena' = arena
                     /\ controls # <<>>
                          => IF ~Has(pops)
                             THEN /\ status' = "err"
                                  /\ err' \in {"StackUnderflow", "TypeMismatch"}
                             ELSE IF indices.memories = <<>>
                             THEN status' = "err" /\ err' = "UnknownIndex"
                             ELSE status' = "err" /\ err' = "InvalidAlignment"
             /\ status' = "run"
                  => /\ arg.flags < 32
                     /\ controls # <<>> /\ Has(pops)
                     /\ indices.memories # <<>>
                     /\ Last(arena'[Top.block]).i
                          = IF Last(body').op = "I32Load"
                            THEN "Load" ELSE "AtomicNotify"
                     /\ LET align == Last(arena'[Top.block]).value.arg.align
                        IN /\ align.hi \in 0..(2 ^ 16 - 1)
                           /\ align.lo \in 0..(2 ^ 16 - 1)
                           /\ IF arg.flags < 16
                              THEN align.hi = 0 /\ align.lo = 2 ^ arg.flags
                              ELSE /\ align.hi = 2 ^ (arg.flags - 16)
                                   /\ align.lo = 0
                     /\ Last(arena'[Top.block]).value.arg.offset = arg.offset
                     /\ Last(arena'[Top.block]).value.memory
                          = indices.memories[1]]_vars

(* [i32.const, i32.load with flags 31]: the alignment recorded is 2^31.    *)
C33_Witness ==
    /\ status = "run"
    /\ Len(body) = 2
    /\ body[2].op = "I32Load"
    /\ body[2].memarg.flags = 31
    /\ Last(arena[entry]).i = "Load"
    /\ Last(arena[entry]).value.arg.align = [hi |-> 32768, lo |-> 0]
    /\ operands = <<I32>>

----------------------------------------------------------------------------
(* C34: a `drop` read while the operand depth equals the height of the     *)
(* innermost frame fails with StackUnderflow, nothing popped or appended,  *)
(* when that frame is not marked unreachable, and is accepted with the     *)
(* operand stack unchanged when it is. No operator, accepted or failing,   *)
(* leaves the operand depth below the height of the frame that was         *)
(* innermost when it was read, nor changes an entry below that height.     *)
C34_PopAtHeight ==
    [][(status = "run" /\ body' # body /\ controls # <<>>)
       => /\ (Last(body').op = "Drop" /\ Len(operands) = Top.height)
               => /\ operands' = operands
                  /\ controls' = controls
                  /\ IF Top.unreachable
                     THEN /\ status' = "run"
                          /\ arena' = [arena EXCEPT ![Top.block] =
                                          Append(@, Last(arena'[Top.block]))]
                          /\ Last(arena'[Top.block]).i = "Drop"
                     ELSE /\ status' = "err"
                          /\ err' = "StackUnderflow"
                          /\ arena' = arena
          /\ (Last(body').op = "Drop" /\ Len(operands) > Top.height)
               => /\ status' = "run"
                  /\ operands' = Front(operands)
          /\ Len(operands) >= Top.height
          /\ Len(operands') >= Top.height
          /\ SubSeq(operands', 1, Top.height)
               = SubSeq(operands, 1, Top.height)]_vars

(* [i32.const, block, unreachable, drop]: the drop in the block is         *)
(* accepted and the i32 below the block's height stays.                    *)
C34_Witness ==
    /\ status = "run"
    /\ Len(body) = 4
    /\ body[2].op = "Block"
    /\ body[3].op = "Unreachable"
    /\ body[4].op = "Drop"
    /\ operands = <<I32>>
    /\ Len(controls) = 2
    /\ Top.height = 1
    /\ Top.unreachable
    /\ Last(arena[Top.block]).i = "Drop"

----------------------------------------------------------------------------
(* C35: whenever an `end` is read while the innermost frame is of kind If  *)
(* or Else, the side stack is not empty and its last entry, the one the    *)
(* `end` pops, has an alternative exactly when the kind is Else (the       *)
(* debug_assert_eq! lines of `end` hold); the entry's consequent, or its   *)
(* alternative when it has one, is the sequence of the frame.              *)
C35_EndAssertions ==
    [][(status = "run" /\ body' # body /\ Last(body').op = "End"
          /\ controls # <<>> /\ Top.kind \in {"If", "Else"})
       => /\ if_else # <<>>
          /\ Last(if_else).alternative # NoSeq <=> Top.kind = "Else"
          /\ Last(if_else).alternative = NoSeq <=> Top.kind = "If"
          /\ Top.block = IF Top.kind = "Else"
                         THEN Last(if_else).alternative
                         ELSE Last(if_else).consequent
          /\ status' = "run"
               => /\ if_else' = Front(if_else)
                  /\ Last(arena'[Last(controls').block]).seqs[1]
                       = Last(if_else).consequent]_vars

(* [i32.const, if, else, end]: the `end` pops the Else frame and an entry  *)
(* with an alternative.                                                    *)
C35_Witness ==
    /\ status = "run"
    /\ Len(body) = 4
    /\ body[2].op = "If"
    /\ body[3].op = "Else"
    /\ body[4].op = "End"
    /\ if_else = <<>>
    /\ Len(controls) = 1
    /\ Last(arena[entry]).i = "IfElse"
    /\ frames[Last(arena[entry]).seqs[2]].kind = "Else"
    /\ body[3] = [op |-> "Else"]

----------------------------------------------------------------------------
(* C36: whenever the control stack is empty and no operator has failed,    *)
(* which is where the read loop can end with a function, the operand       *)
(* stack holds the result types of the function's type and nothing else    *)
(* (the debug_assert_eq! on the lengths at the end of parse holds).        *)
C36_FinalAssertion ==
    (status \in {"run", "ok"} /\ controls = <<>>)
        => /\ Len(operands) = Len(result)
           /\ operands = result
           /\ if_else = <<>>

(* [unreachable, end] in a function of result i32: the i32 on the stack    *)
(* is the one the final `end` pushed.                                      *)
C36_Witness ==
    /\ status = "ok"
    /\ result = <<I32>>
    /\ body = <<[op |-> "Unreachable"], [op |-> "End"]>>
    /\ operands = <<I32>>
    /\ controls = <<>>

----------------------------------------------------------------------------
(* C37: parse returns a function only for a body whose last operator is    *)
(* the `end` that pops the FunctionEntry frame: no operator follows the    *)
(* first `end` read with one frame open.  The code breaks it: the read     *)
(* loop goes on after that `end`, and a `nop` read then is accepted.       *)
C37_NothingAfterFinalEnd ==
    status = "ok"
        => /\ body # <<>>
           /\ Last(body).op = "End"
           /\ \A k \in 1..(Len(body) - 1) :
                  body[k].op = "End"
                      => CountOps(SubSeq(body, 1, k - 1), Openers)
                           >= CountOps(SubSeq(body, 1, k), {"End"})

----------------------------------------------------------------------------
(* C38: in every sequence the instructions are in the order of their       *)
(* operators in the body, an IfElse instruction counting at the place of   *)
(* its `if` (the opening operator matching the `end` that made it); and    *)
(* every accepted operator other than `if`, `else`, `end` and `nop`        *)
(* appends one instruction, carrying its place in the body, to the         *)
(* sequence of the frame that is innermost when it is read, and leaves     *)
(* the other sequences as they are.                                        *)
C38_BodyOrder ==
    /\ [](\A id \in DOMAIN arena :
             LET balanced(i, n) ==
                     Cardinality({j \in (i + 1)..(n - 1) :
                                     body[j].op \in Openers})
                       = Cardinality({j \in (i + 1)..(n - 1) :
                                         body[j].op = "End"})
                 opening(n) ==
                     CHOOSE i \in 1..(n - 1) :
                         /\ body[i].op \in Openers /\ balanced(i, n)
                         /\ \A j \in (i + 1)..(n - 1) :
                                ~(body[j].op \in Openers /\ balanced(j, n))
                 place(instr) ==
                     IF instr.i = "IfElse"
                     THEN opening(instr.loc + 1) ELSE instr.loc + 1
             IN /\ \A k \in 1..Len(arena[id]) :
                       /\ place(arena[id][k]) \in 1..Len(body)
                       /\ arena[id][k].i = "IfElse"
                            <=> body[place(arena[id][k])].op = "If"
                       /\ arena[id][k].i = "IfElse"
                            => body[arena[id][k].loc + 1].op = "End"
                /\ \A k \in 1..(Len(arena[id]) - 1) :
                       place(arena[id][k]) < place(arena[id][k + 1]))
    /\ [][(status = "run" /\ body' # body /\ status' = "run"
             /\ Last(body').op \notin {"If", "Else", "End", "Nop"})
          => /\ controls # <<>>
             /\ arena'[Top.block]
                  = Append(arena[Top.block], Last(arena'[Top.block]))
             /\ Last(arena'[Top.block]).loc = Len(body)
             /\ \A id \in DOMAIN arena \ {Top.block} :
                    arena'[id] = arena[id]]_vars

(* [i32.const, if, unreachable, end]: the entry sequence holds the         *)
(* constant and then the IfElse, the consequent the Unreachable.           *)
C38_Witness ==
    /\ status = "run"
    /\ Len(body) = 4
    /\ body[2].op = "If"
    /\ body[3].op = "Unreachable"
    /\ body[4].op = "End"
    /\ Len(arena[entry]) = 2
    /\ arena[entry][1].i = "Const"
    /\ arena[entry][1].loc = 0
    /\ arena[entry][2].i = "IfElse"
    /\ arena[entry][2].loc = 3
    /\ Len(arena[arena[entry][2].seqs[1]]) = 1
    /\ arena[arena[entry][2].seqs[1]][1].loc = 2

----------------------------------------------------------------------------
(* C39: in every state in which an operator can be read with a frame open, *)
(* `return` and `br n` with n the number of open frames minus one are      *)
(* accepted or rejected together, with the same error, and leave the same  *)
(* operand stack, control stack and side stack; accepted, they append one  *)
(* node each to the same sequence, a Return and a Br, and that is their    *)
(* only difference.  The code breaks it: in a frame opened after the       *)
(* function's final `end` the bottom frame is not the FunctionEntry frame, *)
(* and `br` pops that frame's label types where `return` pops the          *)
(* function's results.                                                     *)
C39_ReturnIsBrToEntry ==
    (status = "run" /\ controls # <<>>) =>
        LET same(r, b) ==
                /\ r.err = b.err
                /\ r.operands = b.operands
                /\ r.controls = b.controls
                /\ r.if_else = b.if_else
                /\ DOMAIN r.arena = DOMAIN b.arena
                /\ \A id \in DOMAIN r.arena :
                       /\ Len(r.arena[id]) = Len(b.arena[id])
                       /\ \A k \in 1..Len(arena[id]) :
                              r.arena[id][k] = b.arena[id][k]
                /\ r.err = NoErr
                     => /\ Last(r.arena[Top.block]).i = "Return"
                        /\ Last(b.arena[Top.block]).i = "Br"
                        /\ Last(b.arena[Top.block]).tgts
                             = <<controls[1].block>>
        IN same(validate_instruction(
                    Ctx(operands, controls, if_else, arena, frames),
                    [op |-> "Return"], Len(body)),
                validate_instruction(
                    Ctx(operands, controls, if_else, arena, frames),
                    [op |-> "Br", relative_depth |-> Len(controls) - 1],
                    Len(body)))

----------------------------------------------------------------------------
(* C40: no operator, accepted or failing, changes an operand-stack entry   *)
(* below the height of a frame that is open when it is read, the frame it  *)
(* pops included; and after an accepted `end` or `else` the entries below  *)
(* the height of the frame it popped are those that were there right       *)
(* after the opening operator of the construct, which pushed the frame     *)
(* (for an Else frame: the If frame it replaced, of the same height).      *)
(* The stack after the opening operator is that of parse run on the        *)
(* operators up to it.                                                     *)
C40_BelowHeight ==
    /\ [][(status = "run" /\ body' # body)
          => \A i \in 1..Len(controls) :
                 /\ Len(operands') >= controls[i].height
                 /\ SubSeq(operands', 1, controls[i].height)
                      = SubSeq(operands, 1, controls[i].height)]_vars
    /\ []((status = "run" /\ body # <<>>
             /\ Last(body).op \in {"End", "Else"})
          => LET n == Len(body)
                 balanced(i) ==
                     Cardinality({j \in (i + 1)..(n - 1) :
                                     body[j].op \in Openers})
                       = Cardinality({j \in (i + 1)..(n - 1) :
                                         body[j].op = "End"})
                 matching == {i \in 1..(n - 1) :
                                 body[i].op \in Openers /\ balanced(i)}
                 opening == CHOOSE i \in matching : \A j \in matching : j <= i
                 kept(opened) ==
                     /\ opened.err = NoErr
                     /\ opened.controls # <<>>
                     /\ Len(operands) >= Last(opened.controls).height
                     /\ SubSeq(operands, 1, Last(opened.controls).height)
                          = SubSeq(opened.operands, 1,
                                   Last(opened.controls).height)
                     /\ Last(body).op = "Else"
                          => Top.height = Last(opened.controls).height
             IN matching # {} =>
                    kept(parse_alone(SubSeq(body, 1, opening))))

(* [i32.const, block, unreachable, end]: the i32 below the block's height  *)
(* is there after the `end`.                                               *)
C40_Witness ==
    /\ status = "run"
    /\ Len(body) = 4
    /\ body[1].op = "I32Const"
    /\ body[2].op = "Block"
    /\ body[2].ty = EmptyTy
    /\ body[3].op = "Unreachable"
    /\ body[4].op = "End"
    /\ operands = <<I32>>
    /\ Len(controls) = 1
    /\ frames[2].height = 1

====
